---- MODULE Spec2Model ----
(***************************************************************************)
(* Batched drift and error-analysis checks of deepchecks.vision:           *)
(*   TrainTestPredictionDrift (checks/distribution/                        *)
(*   train_test_prediction_drift.py) and ModelErrorAnalysis                *)
(*   (checks/performance/model_error_analysis.py).                         *)
(* One check object is constructed (Init), then its methods                *)
(* initialize_run / update / compute are called in any order; every call   *)
(* either returns or raises, and the outcome is recorded in `last`.        *)
(*                                                                         *)
(* Encodings.  Drift scores are fixed-point numbers with 7 decimals.       *)
(* Class names are numbers 100 + id (a name is never equal to an id).      *)
(***************************************************************************)
EXTENDS Integers, Sequences, FiniteSets, TLC

\* ------------------------------------------------------------------ bounds
\* accepted update calls per run
MaxUpdates == 3
\* compute calls per run
MaxComputes == 2

\* --------------------------------------------------------------- constants
TRAIN == "train"
TEST == "test"
\* a dataset kind that is neither TRAIN nor TEST (the else branch of update)
OTHER_KIND == "other"
DatasetKind == {TRAIN, TEST, OTHER_KIND}

CLASSIFICATION == "classification"
OBJECT_DETECTION == "object_detection"
OTHER_TASK == "other_task"
TaskType == {CLASSIFICATION, OBJECT_DETECTION, OTHER_TASK}

None == [type |-> "None"]

PSI == "PSI"
EMD == "Earth Mover's Distance"

\* ------------------------------------------------------------------ batches
Det(c, a) == [class_id |-> c, area |-> a]
\* a sample: the image (brightness, aspect ratio), the predictions made for it
\* and the per-sample error score its prediction and label give
Sample(b, a, ds, e) ==
    [brightness |-> b, aspect_ratio |-> a, predictions |-> ds, error |-> e]
\* two images: one with two boxes (classes 0 and 1), one with no box
Batch1 == << Sample(1, 1, <<Det(0, 1), Det(1, 3)>>, 2), Sample(2, 1, <<>>, 0) >>
\* one image with one box of class 1
Batch2 == << Sample(2, 2, <<Det(1, 2)>>, 1) >>
Batches == {Batch1, Batch2}

\* ------------------------------------------------------------- properties
Property(n, t) == [name |-> n, output_type |-> t]
SamplesPerClass == Property("Samples Per Class", "class_id")
BoundingBoxArea == Property("Bounding Box Area", "continuous")
NumberOfBoxes == Property("Number of Bounding Boxes Per Image", "discrete")
DEFAULT_CLASSIFICATION_PREDICTION_PROPERTIES == << SamplesPerClass >>
DEFAULT_OBJECT_DETECTION_PREDICTION_PROPERTIES ==
    << SamplesPerClass, BoundingBoxArea, NumberOfBoxes >>
\* a caller-supplied list (prediction_properties of __init__)
UserPredictionProperties == << NumberOfBoxes, SamplesPerClass >>
\* <<>> stands for prediction_properties = None
UserChoices == { <<>>, UserPredictionProperties }

\* property['method'](batch.predictions): one entry per sample; an entry is
\* the sequence of values of that sample (a scalar is a one-element entry)
Method(name, batch) ==
    CASE name = "Samples Per Class" ->
           [i \in DOMAIN batch |->
              [j \in DOMAIN batch[i].predictions |-> batch[i].predictions[j].class_id]]
      [] name = "Bounding Box Area" ->
           [i \in DOMAIN batch |->
              [j \in DOMAIN batch[i].predictions |-> batch[i].predictions[j].area]]
      [] name = "Number of Bounding Boxes Per Image" ->
           [i \in DOMAIN batch |-> << Len(batch[i].predictions) >>]

\* all values of all samples concatenated, the per-sample grouping lost
RECURSIVE properties_flatten(_)
properties_flatten(in_list) ==
    IF in_list = <<>> THEN <<>>
    ELSE in_list[1] \o properties_flatten(Tail(in_list))

\* defaultdict(list): a function on the keys touched so far
EmptyDict == << >>
Get(d, k) == IF k \in DOMAIN d THEN d[k] ELSE <<>>
Put(d, k, v) == (k :> v) @@ d

\* id -> name lookup of the dataset; a value that is no id of the label map
\* is returned as its own string
label_id_to_name(class_id) ==
    IF class_id \in {0, 1} THEN 100 + class_id ELSE class_id

get_column_type(output_type) ==
    IF output_type = "continuous" THEN "numerical" ELSE "categorical"

\* ------------------------------------------------------------ drift scores
\* the distinct values of a column, in first-seen order
Distinct(s) ==
    LET firsts == {i \in DOMAIN s : \A j \in 1..(i - 1) : s[j] # s[i]}
        Nth(n) == CHOOSE i \in firsts : Cardinality({j \in firsts : j < i}) = n - 1
    IN [n \in 1..Cardinality(firsts) |-> s[Nth(n)]]

Count(s, v) == Cardinality({i \in DOMAIN s : s[i] = v})

\* the distinct values of a column ranked by descending frequency, equal
\* frequencies in first-seen order
RECURSIVE RankByFrequency(_, _)
RankByFrequency(values, column) ==
    IF values = <<>> THEN <<>>
    ELSE LET before == RankByFrequency(SubSeq(values, 1, Len(values) - 1), column)
             x == values[Len(values)]
             k == Cardinality({i \in DOMAIN before :
                     Count(column, before[i]) >= Count(column, x)})
         IN SubSeq(before, 1, k) \o << x >> \o SubSeq(before, k + 1, Len(before))

Bin(label, values) == [label |-> label, values |-> values]
OTHER_LABEL == "Other"

\* categorical binning with at most k bins: one singleton bin per value when
\* there are at most k distinct values, else the k - 1 most frequent values
\* as singleton bins and one "Other" bin for the rest; <<>> when k <= 0 or
\* the column is empty (InvalidParameter)
categorical_bins(column, k) ==
    LET ranked == RankByFrequency(Distinct(column), column)
        Single(i) == Bin(ToString(ranked[i]), {ranked[i]})
    IN IF k <= 0 \/ column = <<>> THEN <<>>
       ELSE IF Len(ranked) <= k THEN [i \in DOMAIN ranked |-> Single(i)]
       ELSE [i \in 1..(k - 1) |-> Single(i)]
            \o << Bin(OTHER_LABEL, {ranked[i] : i \in k..Len(ranked)}) >>

RECURSIVE SumTo(_, _, _)
SumTo(F(_), lo, hi) == IF lo > hi THEN 0 ELSE F(lo) + SumTo(F, lo + 1, hi)

\* ln(k) in thousandths
LnMilli(k) ==
    CASE k = 1 -> 0 [] k = 2 -> 693 [] k = 3 -> 1099 [] k = 4 -> 1386
      [] k = 5 -> 1609 [] k = 6 -> 1792 [] k = 7 -> 1946 [] k = 8 -> 2079
      [] k = 9 -> 2197 [] k = 10 -> 2303 [] k = 11 -> 2398 [] k = 12 -> 2485
      [] k = 10000 -> 9210

\* proportion c/n in ten-thousandths, zero counts floored to epsilon = 0.0001
Percent(c, n) == IF c = 0 THEN 1 ELSE (c * 10000) \div n
LnPercent(c, n) == IF c = 0 THEN 0 - LnMilli(10000) ELSE LnMilli(c) - LnMilli(n)

\* the number of values of a column that fall into a bin
CountIn(s, bin) == Cardinality({i \in DOMAIN s : s[i] \in bin.values})

\* PSI = sum over the bins of (p - q) * ln(p / q), the bins being those of
\* the two populations taken together
psi(train_dist, test_dist, bins) ==
    LET n == Len(train_dist)
        m == Len(test_dist)
        Term(i) ==
            LET ct == CountIn(train_dist, bins[i])
                cs == CountIn(test_dist, bins[i])
            IN (Percent(ct, n) - Percent(cs, m)) * (LnPercent(ct, n) - LnPercent(cs, m))
    IN SumTo(Term, 1, Len(bins))

Abs(x) == IF x < 0 THEN 0 - x ELSE x
SeqMin(s) == CHOOSE x \in {s[i] : i \in DOMAIN s} : \A j \in DOMAIN s : x <= s[j]
SeqMax(s) == CHOOSE x \in {s[i] : i \in DOMAIN s} : \A j \in DOMAIN s : x >= s[j]
CountLE(s, t) == Cardinality({i \in DOMAIN s : s[i] <= t})

\* 1-D Wasserstein distance of the two empirical distributions (raw units):
\* the integral of |F_train - F_test|
earth_movers_distance(train_dist, test_dist) ==
    LET all == train_dist \o test_dist
        n == Len(train_dist)
        m == Len(test_dist)
        Gap(t) == Abs(CountLE(train_dist, t) * m - CountLE(test_dist, t) * n)
    IN (SumTo(Gap, SeqMin(all), SeqMax(all) - 1) * 10000000) \div (n * m)

ShowCategoriesBy == {"train_largest", "test_largest", "largest_difference"}

\* the bins ordered by what show_categories_by names, largest first
RECURSIVE RankBins(_, _, _, _)
RankBins(bins, train_column, test_column, show_categories_by) ==
    IF bins = <<>> THEN <<>>
    ELSE LET Key(bin) ==
                 LET ct == CountIn(train_column, bin)
                     cs == CountIn(test_column, bin)
                 IN CASE show_categories_by = "train_largest" -> ct
                      [] show_categories_by = "test_largest" -> cs
                      [] show_categories_by = "largest_difference" ->
                           Abs(ct * Len(test_column) - cs * Len(train_column))
             before == RankBins(SubSeq(bins, 1, Len(bins) - 1), train_column,
                                test_column, show_categories_by)
             x == bins[Len(bins)]
             k == Cardinality({i \in DOMAIN before : Key(before[i]) >= Key(x)})
         IN SubSeq(before, 1, k) \o << x >> \o SubSeq(before, k + 1, Len(before))

\* the rendering artifact of a categorical property: its bins and the labels
\* of the max_num_categories_for_display bins the chart shows
categorical_display(bins, train_column, test_column, for_display, show_categories_by) ==
    LET ranked == RankBins(bins, train_column, test_column, show_categories_by)
        n == IF Len(ranked) < for_display THEN Len(ranked) ELSE for_display
    IN [bins |-> bins, shown |-> [i \in 1..n |-> ranked[i].label]]

\* the categorical scorer on the bins of the two populations
categorical_drift(train_column, test_column, bins, for_display, show_categories_by) ==
    IF bins = <<>>
    THEN [error |-> "InvalidParameter", score |-> 0, method |-> PSI,
          display |-> None]
    ELSE [error |-> "none", score |-> psi(train_column, test_column, bins),
          method |-> PSI,
          display |-> categorical_display(bins, train_column, test_column,
                         for_display, show_categories_by)]

\* returns the score, the method and the rendering artifact, or the error
\* the scorer fails with
calc_drift_and_plot(train_column, test_column, column_type, for_drift, for_display, show_categories_by) ==
    IF column_type = "numerical"
    THEN IF train_column = <<>> \/ test_column = <<>>
         THEN [error |-> "InsufficientData", score |-> 0, method |-> EMD,
               display |-> None]
         ELSE [error |-> "none",
               score |-> earth_movers_distance(train_column, test_column),
               method |-> EMD, display |-> [bins |-> <<>>, shown |-> <<>>]]
    ELSE categorical_drift(train_column, test_column,
                           categorical_bins(train_column \o test_column, for_drift),
                           for_display, show_categories_by)

\* ------------------------------------------------------------------- state
VARIABLES
    which,                       \* the object exercised: a check or the suite report
    config,                      \* the arguments the check was constructed with
    segment_performance,         \* the attributes of the SegmentPerformance object
    suite_results,               \* the results a suite run hands to its report
    displayed,                   \* what display_suite_result has displayed
    inited,                      \* the run attributes are no longer None
    context,                     \* the Context of the current run
    user_prediction_properties,  \* TrainTestPredictionDrift.__init__ argument
    prediction_properties,       \* self._prediction_properties
    train_prediction_properties, \* self._train_prediction_properties
    test_prediction_properties,  \* self._test_prediction_properties
    train_properties,            \* ModelErrorAnalysis._train_properties
    test_properties,             \* ModelErrorAnalysis._test_properties
    train_scores,                \* ModelErrorAnalysis._train_scores
    test_scores,                 \* ModelErrorAnalysis._test_scores
    last,                        \* the last call and how it ended
    ret,                         \* what the last call returned
    log,                         \* update calls of this run that reached a buffer
    computes,                    \* compute calls of this run
    trace,                       \* analyzer states this run went through
    discarded                    \* the run began on buffers that held values

pdVars == << user_prediction_properties, prediction_properties,
             train_prediction_properties, test_prediction_properties >>
eaVars == << train_properties, test_properties, train_scores, test_scores, trace >>
dsVars == << suite_results, displayed >>
vars == << which, dsVars, config, segment_performance, inited, context, pdVars, eaVars, last, ret, log, computes,
          discarded >>

Call(op, kind, out) == [op |-> op, kind |-> kind, out |-> out]

Context(t, u, r, f) == [train_task |-> t, test_task |-> u, r2 |-> r, fi |-> f]
\* the runs' contexts: r2 is the held-out score (in hundredths) the auxiliary
\* error model reaches in the run and fi the feature importance (in
\* hundredths) it gives to each image property, in declaration order; one
\* context has a test dataset of a task type the checks do not support, one a
\* train dataset of such a type
Contexts ==
    { Context(CLASSIFICATION, CLASSIFICATION, 80, <<30, 70>>),
      Context(CLASSIFICATION, CLASSIFICATION, 30, <<30, 70>>),
      Context(OBJECT_DETECTION, OBJECT_DETECTION, 80, <<90, 10>>),
      Context(OBJECT_DETECTION, OTHER_TASK, 80, <<90, 10>>),
      Context(OTHER_TASK, OTHER_TASK, 80, <<90, 10>>) }

\* TrainTestPredictionDrift reads context.train.task_type only
PDContexts == { c \in Contexts : c.test_task = c.train_task /\ c.r2 = 80 }

\* defaults of ModelErrorAnalysis.__init__
max_properties_to_show == 20
\* in hundredths
min_property_contribution == 15
\* the keyword arguments ModelErrorAnalysis is constructed with: the defaults,
\* or max_properties_to_show=1
EAConfigs ==
    { [max_properties_to_show |-> m, min_property_contribution |-> min_property_contribution]
        : m \in {1, max_properties_to_show} }
\* defaults of TrainTestPredictionDrift.__init__
max_num_categories_for_drift == 10
max_num_categories_for_display == 10
\* max_num_categories=None
NoLimit == 0
\* lines 93-103: the attributes __init__ sets from its keyword arguments;
\* the deprecated max_num_categories replaces a cap that is None or 0
PD_init(for_drift, for_display, show_categories_by, max_num_categories) ==
    [max_num_categories_for_drift |->
        IF max_num_categories # NoLimit /\ for_drift = 0 THEN max_num_categories
        ELSE for_drift,
     max_num_categories_for_display |->
        IF max_num_categories # NoLimit /\ for_display = 0 THEN max_num_categories
        ELSE for_display,
     show_categories_by |-> show_categories_by]
\* the drift checks constructed: TrainTestPredictionDrift() and, with the
\* caller's properties, TrainTestPredictionDrift(prediction_properties=...,
\* max_num_categories_for_drift=2, max_num_categories_for_display=1,
\* show_categories_by='test_largest', max_num_categories=5)
PDConfig(user) ==
    IF user = <<>>
    THEN PD_init(max_num_categories_for_drift, max_num_categories_for_display,
                 "train_largest", NoLimit)
    ELSE PD_init(2, 1, "test_largest", 5)

\* --------------------------------- SegmentPerformance: objects and contexts
\* feature labels: "None" stands for None and "0" for the column label 0
NoFeature == "None"
Features == {NoFeature, "0", "a"}
\* truth value of a feature label: None and 0 are false
bool(x) == x \notin {NoFeature, "0"}

\* values given as max_segments: integers and the float 2.0
IntArg(n) == [type |-> "int", value |-> n]
FloatArg(n) == [type |-> "float", value |-> n]
max_segments_default == 10
MaxSegmentsArgs ==
    {IntArg(0 - 1), IntArg(0), IntArg(2), IntArg(max_segments_default), FloatArg(2)}
isinstance_int(x) == x.type = "int"

\* the attributes of the check object; args and accessed record the arguments
\* of the last constructor call and what the last call read from the context
Unbuilt ==
    [constructed |-> FALSE, feature_1 |-> NoFeature, feature_2 |-> NoFeature,
     max_segments |-> IntArg(max_segments_default), args |-> <<>>, accessed |-> <<>>]

\* a row of a dataset: the values of its features and whether the model
\* predicts its label
Row(z, a, b, y) == ("0" :> z @@ "a" :> a @@ "b" :> b @@ "y" :> y)
Dataset(features, data) == [features |-> features, data |-> data]
TrainData == << Row(1, 1, 1, 1), Row(1, 2, 1, 0), Row(2, 1, 2, 1), Row(3, 2, 1, 1) >>
TestData == << Row(1, 1, 1, 0), Row(2, 2, 2, 1) >>
\* features_importance: <<>> stands for None
Importance(f, v) == [feature |-> f, importance |-> v]
SPContext(features, fi) ==
    [train |-> Dataset(features, TrainData), test |-> Dataset(features, TestData),
     features_importance |-> fi]
SPContexts ==
    { SPContext(<<"0", "a", "b">>, <<>>),
      SPContext(<<"0", "a", "b">>,
                << Importance("0", 10), Importance("a", 30), Importance("b", 60) >>),
      SPContext(<< "a" >>, <<>>) }

\* ---------------------------------- MixedDataTypes: objects and contexts
\* the values of a data frame: floats, strings and the missing value
Num(x) == [type |-> "float", value |-> x]
Str(x) == [type |-> "str", value |-> x]
NA == [type |-> "nan", value |-> "nan"]

\* a ratio of two counts
Ratio(n, d) == [num |-> n, den |-> d]
Less(a, b) == a.num * b.den < b.num * a.den
RatioEq(a, b) == a.num * b.den = b.num * a.den
RatioMin(a, b) == IF Less(b, a) THEN b ELSE a
OneMinus(a) == Ratio(a.den - a.num, a.den)

DataFrame(columns, data) == [columns |-> columns, data |-> data]
Nine1 == [i \in 1..9 |-> Str("1")]
MDTrain ==
    DataFrame(<< "n", "s", "p", "m", "t" >>,
              [c \in {"n", "s", "p", "m", "t"} |->
                 CASE c = "n" -> << Num(1), NA, Num(2) >>
                   [] c = "s" -> << Str("a"), Str("b"), NA >>
                   [] c = "p" -> << Str("1"), Str("2"), Str("3") >>
                   [] c = "m" -> << Str("1"), Str("a"), NA, Str("2") >>
                   [] c = "t" -> << Str("a") >> \o Nine1 ])
MDTest ==
    DataFrame(<< "h", "q", "e", "x" >>,
              [c \in {"h", "q", "e", "x"} |->
                 CASE c = "h" -> << Str("1"), Str("a"), Str("b"), Str("2") >>
                   [] c = "q" -> << Str("a"), Str("1"), Str("2"), Str("3") >>
                   [] c = "e" -> << NA, NA, NA, NA >>
                   [] c = "x" -> << Num(1), Str("a"), Str("b"), Str("c") >> ])
MDContext == [train |-> MDTrain, test |-> MDTest]

\* MixedDataTypes.__init__ (lines 44-54); <<>> stands for None
n_top_columns == 10
MD_init(columns, ignore_columns) ==
    [columns |-> columns, ignore_columns |-> ignore_columns,
     n_top_columns |-> n_top_columns]
MDConfigs ==
    { MD_init(<<>>, <<>>), MD_init(<<>>, << "m", "h" >>),
      MD_init(<< "m", "n", "q", "e" >>, <<>>) }

\* the default of ratio_range and the other ranges conditions are added with
ratio_range_default == << Ratio(1, 100), Ratio(1, 10) >>
RatioRanges ==
    { ratio_range_default, << Ratio(1, 4), Ratio(1, 2) >>,
      << Ratio(1, 5), Ratio(2, 5) >>, << Ratio(1, 3), Ratio(3, 4) >> }

\* ------------------------------------- display_suite_result: the results
MaxResults == 3
\* a CheckResult: its header, whether it has conditions and a display, and
\* its priority
CheckResult(header, conditions, has_display, priority) ==
    [type |-> "CheckResult", header |-> header, have_conditions |-> conditions,
     have_display |-> has_display, priority |-> priority]
Exception(class, message) == [class |-> class, message |-> message]
CheckFailure(header, exception) ==
    [type |-> "CheckFailure", header |-> header, exception |-> exception]
\* what a suite run may hand over: results with and without conditions and
\* display, two failed checks, and an element that is neither
SuiteElements ==
    { CheckResult("Drift", TRUE, TRUE, 2), CheckResult("Mixed", TRUE, TRUE, 1),
      CheckResult("Nulls", TRUE, FALSE, 1), CheckResult("Segments", FALSE, TRUE, 1),
      CheckResult("Single", FALSE, FALSE, 3),
      CheckFailure("Errors", Exception("DeepchecksProcessError", "weak model")),
      CheckFailure("Drift", Exception("ValueError", "bad")),
      [type |-> "str"] }
SuiteInputs == UNION { [1..n -> SuiteElements] : n \in 0..MaxResults }

Init ==
    /\ which \in {"pd", "ea", "sp", "md", "ds"}
    /\ inited = FALSE
    /\ user_prediction_properties \in
          (IF which = "pd" THEN UserChoices ELSE { <<>> })
    /\ config \in (CASE which = "pd" -> { PDConfig(user_prediction_properties) }
                      [] which = "ea" -> EAConfigs
                      [] which = "sp" -> { <<>> }
                      [] which = "md" -> MDConfigs
                      [] which = "ds" -> { <<>> })
    /\ segment_performance = Unbuilt
    /\ context \in (CASE which = "sp" -> SPContexts
                       [] which = "md" -> { MDContext }
                       [] OTHER -> { Context(OTHER_TASK, OTHER_TASK, 30, <<90, 10>>) })
    /\ suite_results \in (IF which = "ds" THEN SuiteInputs ELSE { <<>> })
    /\ displayed = <<>>
    /\ prediction_properties = <<>>
    /\ train_prediction_properties = EmptyDict
    /\ test_prediction_properties = EmptyDict
    /\ train_properties = EmptyDict
    /\ test_properties = EmptyDict
    /\ train_scores = <<>>
    /\ test_scores = <<>>
    /\ last = IF which \in {"sp", "ds"} THEN Call("none", "none", "ok")
              ELSE Call("__init__", "none", "ok")
    /\ ret = None
    /\ log = <<>>
    /\ computes = 0
    /\ trace = <<>>
    /\ discarded = FALSE

\* ------------------------------------------- TrainTestPredictionDrift (pd)
\* variant: a task type without defaults gets those of classification
select_prediction_properties_fallback(user, task_type) ==
    IF user # <<>> THEN user
    ELSE IF task_type = OBJECT_DETECTION
         THEN DEFAULT_OBJECT_DETECTION_PREDICTION_PROPERTIES
    ELSE DEFAULT_CLASSIFICATION_PREDICTION_PROPERTIES

\* the property list initialize_run selects; <<>> when it raises
select_prediction_properties(user, task_type) ==
    IF user # <<>> THEN user
    ELSE IF task_type = CLASSIFICATION
         THEN DEFAULT_CLASSIFICATION_PREDICTION_PROPERTIES
    ELSE IF task_type = OBJECT_DETECTION
         THEN DEFAULT_OBJECT_DETECTION_PREDICTION_PROPERTIES
    ELSE <<>>

\* variant: a buffer is created only where none exists yet
new_buffer_if_none(current) == current

\* defaultdict(list) assigned by initialize_run, whatever the attribute held
new_buffer(current) == EmptyDict

PD_initialize_run(ctx) ==
    /\ which = "pd"
    /\ LET selected == select_prediction_properties(user_prediction_properties,
                                                    ctx.train_task)
       IN IF selected = <<>>
          THEN /\ last' = Call("initialize_run", "none", "NotImplementedError")
               /\ ret' = None
               /\ UNCHANGED << which, dsVars, config, segment_performance, inited, context, pdVars, eaVars, log, computes,
                               discarded >>
          ELSE /\ prediction_properties' = selected
               /\ train_prediction_properties' = new_buffer(train_prediction_properties)
               /\ test_prediction_properties' = new_buffer(test_prediction_properties)
               /\ inited' = TRUE
               /\ context' = ctx
               /\ last' = Call("initialize_run", "none", "ok")
               /\ ret' = None
               /\ log' = <<>>
               /\ computes' = 0
               /\ discarded' = (train_prediction_properties # EmptyDict
                                 \/ test_prediction_properties # EmptyDict)
               /\ UNCHANGED << which, dsVars, config, segment_performance, user_prediction_properties, eaVars >>

\* variant: the values of the batch replace the buffer (= for +=)
RECURSIVE PD_extend_assign(_, _, _)
PD_extend_assign(properties, props, batch) ==
    IF props = <<>> THEN properties
    ELSE PD_extend_assign(Put(properties, props[1].name,
                              properties_flatten(Method(props[1].name, batch))),
                          Tail(props), batch)

\* the loop of update: every declared property appends its flattened values
RECURSIVE PD_extend(_, _, _)
PD_extend(properties, props, batch) ==
    IF props = <<>> THEN properties
    ELSE LET name == props[1].name
         IN PD_extend(Put(properties, name,
                          Get(properties, name)
                            \o properties_flatten(Method(name, batch))),
                      Tail(props), batch)

\* variant: the TEST branch selects the train buffer as well
PD_update_buffers_same(train, test, props, batch, dataset_kind) ==
    [train |-> PD_extend(train, props, batch), test |-> test]

\* variant: both attributes are one and the same dictionary
PD_update_buffers_alias(train, test, props, batch, dataset_kind) ==
    [train |-> PD_extend(train, props, batch),
     test |-> PD_extend(train, props, batch)]

\* lines 139-150 for a kind that is TRAIN or TEST: the buffer the kind
\* selects is extended, the other one is not touched
PD_update_buffers(train, test, props, batch, dataset_kind) ==
    IF dataset_kind = TRAIN
    THEN [train |-> PD_extend(train, props, batch), test |-> test]
    ELSE [train |-> train, test |-> PD_extend(test, props, batch)]

\* variant: a kind that is not TRAIN is taken for TEST (else instead of elif)
PD_update_else_test(batch, dataset_kind) ==
    /\ which = "pd"
    /\ Len(log) < MaxUpdates
    /\ IF ~inited
       THEN \* iterating over self._prediction_properties = None
            /\ last' = Call("update", dataset_kind, "TypeError")
            /\ UNCHANGED << pdVars, log >>
       ELSE LET new == PD_update_buffers(train_prediction_properties,
                                         test_prediction_properties,
                                         prediction_properties, batch, dataset_kind)
            IN /\ train_prediction_properties' = new.train
               /\ test_prediction_properties' = new.test
               /\ last' = Call("update", dataset_kind, "ok")
               /\ log' = Append(log, [kind |-> dataset_kind, batch |-> batch])
               /\ UNCHANGED << user_prediction_properties, prediction_properties >>
    /\ ret' = None
    /\ UNCHANGED << which, dsVars, config, segment_performance, inited, context, eaVars, computes, discarded >>

PD_update(batch, dataset_kind) ==
    /\ which = "pd"
    /\ Len(log) < MaxUpdates
    /\ IF dataset_kind \notin {TRAIN, TEST}
       THEN /\ last' = Call("update", dataset_kind, "DeepchecksNotSupportedError")
            /\ UNCHANGED << pdVars, log >>
       ELSE IF ~inited
       THEN \* iterating over self._prediction_properties = None
            /\ last' = Call("update", dataset_kind, "TypeError")
            /\ UNCHANGED << pdVars, log >>
       ELSE LET new == PD_update_buffers(train_prediction_properties,
                                         test_prediction_properties,
                                         prediction_properties, batch, dataset_kind)
            IN /\ train_prediction_properties' = new.train
               /\ test_prediction_properties' = new.test
               /\ last' = Call("update", dataset_kind, "ok")
               /\ log' = Append(log, [kind |-> dataset_kind, batch |-> batch])
               /\ UNCHANGED << user_prediction_properties, prediction_properties >>
    /\ ret' = None
    /\ UNCHANGED << which, dsVars, config, segment_performance, inited, context, eaVars, computes, discarded >>

Map(F(_), s) == [i \in DOMAIN s |-> F(s[i])]

\* variant: the column type is inferred from the accumulated values
PD_score_property_inferred(prediction_property, train_column, test_column) ==
    calc_drift_and_plot(train_column, test_column,
                        IF Len(Distinct(train_column \o test_column)) > 2
                        THEN "numerical" ELSE "categorical",
                        config.max_num_categories_for_drift,
                        config.max_num_categories_for_display,
                        config.show_categories_by)

\* variant: a property with an empty population is refused
PD_score_property_nonempty(prediction_property, train_column, test_column) ==
    IF train_column = <<>> \/ test_column = <<>>
    THEN [error |-> "InsufficientData", score |-> 0, method |-> PSI,
          display |-> None]
    ELSE calc_drift_and_plot(train_column, test_column,
                             get_column_type(prediction_property.output_type),
                             config.max_num_categories_for_drift,
                             config.max_num_categories_for_display,
                             config.show_categories_by)

\* variant: the two caps are passed under each other's keyword
PD_score_property_caps_swapped(prediction_property, train_column, test_column) ==
    calc_drift_and_plot(train_column, test_column,
                        get_column_type(prediction_property.output_type),
                        config.max_num_categories_for_display,
                        config.max_num_categories_for_drift,
                        config.show_categories_by)

\* variant: the score is computed over the categories the chart shows
PD_score_property_shown(prediction_property, train_column, test_column) ==
    LET full == calc_drift_and_plot(train_column, test_column,
                    get_column_type(prediction_property.output_type),
                    config.max_num_categories_for_drift,
                    config.max_num_categories_for_display,
                    config.show_categories_by)
        Shown(v) == \E i \in DOMAIN full.display.bins :
                       /\ v \in full.display.bins[i].values
                       /\ \E j \in DOMAIN full.display.shown :
                             full.display.shown[j] = full.display.bins[i].label
    IN IF full.error # "none" \/ full.method # PSI THEN full
       ELSE LET shown_train == SelectSeq(train_column, Shown)
                shown_test == SelectSeq(test_column, Shown)
                part == calc_drift_and_plot(shown_train, shown_test, "categorical",
                            config.max_num_categories_for_drift,
                            config.max_num_categories_for_display,
                            config.show_categories_by)
            IN [full EXCEPT !.score = part.score]

\* variant: the score carries the direction of the shift (negative when the
\* test population is the smaller one)
PD_score_property_signed(prediction_property, train_column, test_column) ==
    LET full == calc_drift_and_plot(train_column, test_column,
                    get_column_type(prediction_property.output_type),
                    config.max_num_categories_for_drift,
                    config.max_num_categories_for_display,
                    config.show_categories_by)
    IN IF full.error = "none" /\ Len(test_column) < Len(train_column)
       THEN [full EXCEPT !.score = 0 - full.score]
       ELSE full

\* drift of one property: scorer chosen by the declared output_type
PD_score_property(prediction_property, train_column, test_column) ==
    calc_drift_and_plot(train_column, test_column,
                        get_column_type(prediction_property.output_type),
                        config.max_num_categories_for_drift,
                        config.max_num_categories_for_display,
                        config.show_categories_by)

\* variant: a property whose scorer fails is given the score 0 (try / except)
RECURSIVE PD_compute_loop_skip(_, _, _, _, _)
PD_compute_loop_skip(props, i, train, test, values_dict) ==
    IF i > Len(props)
    THEN [error |-> "none", train |-> train, test |-> test, values |-> values_dict]
    ELSE LET name == props[i].name
             is_class == props[i].output_type = "class_id"
             train1 == Put(train, name,
                           IF is_class THEN Map(label_id_to_name, Get(train, name))
                           ELSE Get(train, name))
             test1 == Put(test, name,
                          IF is_class THEN Map(label_id_to_name, Get(test, name))
                          ELSE Get(test, name))
             drift == PD_score_property(props[i], train1[name], test1[name])
         IN PD_compute_loop_skip(props, i + 1, train1, test1,
                Put(values_dict, name,
                    [score |-> drift.score, method |-> drift.method]))

\* the loop of compute over the declared properties, from property i on;
\* an error of the scorer leaves the loop
RECURSIVE PD_compute_loop(_, _, _, _, _)
PD_compute_loop(props, i, train, test, values_dict) ==
    IF i > Len(props)
    THEN [error |-> "none", train |-> train, test |-> test, values |-> values_dict]
    ELSE LET name == props[i].name
             is_class == props[i].output_type = "class_id"
             train1 == Put(train, name,
                           IF is_class THEN Map(label_id_to_name, Get(train, name))
                           ELSE Get(train, name))
             test1 == Put(test, name,
                          IF is_class THEN Map(label_id_to_name, Get(test, name))
                          ELSE Get(test, name))
             drift == PD_score_property(props[i], train1[name], test1[name])
         IN IF drift.error # "none"
            THEN [error |-> drift.error, train |-> train1, test |-> test1,
                  values |-> values_dict]
            ELSE PD_compute_loop(props, i + 1, train1, test1,
                     Put(values_dict, name,
                         [score |-> drift.score, method |-> drift.method]))

\* variant: sorted(names, key=score)[::-1], which reverses equal keys
RECURSIVE PD_columns_order_reversed(_, _)
PD_columns_order_reversed(names, values_dict) ==
    IF names = <<>> THEN <<>>
    ELSE LET before == PD_columns_order_reversed(SubSeq(names, 1, Len(names) - 1),
                                                 values_dict)
             x == names[Len(names)]
             k == Cardinality({i \in DOMAIN before :
                     values_dict[before[i]].score > values_dict[x].score})
         IN SubSeq(before, 1, k) \o << x >> \o SubSeq(before, k + 1, Len(before))

\* sorted(names, key=score, reverse=True): descending, equal keys keep
\* their order
RECURSIVE PD_columns_order(_, _)
PD_columns_order(names, values_dict) ==
    IF names = <<>> THEN <<>>
    ELSE LET before == PD_columns_order(SubSeq(names, 1, Len(names) - 1), values_dict)
             x == names[Len(names)]
             k == Cardinality({i \in DOMAIN before :
                     values_dict[before[i]].score >= values_dict[x].score})
         IN SubSeq(before, 1, k) \o << x >> \o SubSeq(before, k + 1, Len(before))

PD_names(props) == [i \in DOMAIN props |-> props[i].name]

\* lines 184-200: the CheckResult compute returns for the scores in
\* values_dict, with the charts of the scored properties
PD_result(props, train, test, values_dict) ==
    [type |-> "CheckResult", value |-> values_dict,
     display |-> PD_columns_order(PD_names(props), values_dict),
     displays_dict |->
        [n \in DOMAIN values_dict |->
           PD_score_property(props[CHOOSE i \in DOMAIN props : props[i].name = n],
                             train[n], test[n]).display]]

\* how the loop r of compute ends, what compute returns and the buffers it
\* leaves (the ids of class_id properties replaced by names)
PD_ended(props, r) ==
    [out |-> IF r.error = "none" THEN "ok" ELSE r.error,
     ret |-> IF r.error # "none" THEN None
             ELSE PD_result(props, r.train, r.test, r.values),
     train |-> r.train, test |-> r.test]

\* compute on given buffers
PD_outcome(props, train, test) ==
    PD_ended(props, PD_compute_loop(props, 1, train, test, EmptyDict))

PD_compute ==
    /\ which = "pd"
    /\ computes < MaxComputes
    /\ IF ~inited
       THEN \* iterating over self._prediction_properties = None
            /\ last' = Call("compute", "none", "TypeError")
            /\ ret' = None
            /\ UNCHANGED pdVars
       ELSE \E r \in { PD_outcome(prediction_properties,
                                  train_prediction_properties,
                                  test_prediction_properties) } :
               /\ train_prediction_properties' = r.train
               /\ test_prediction_properties' = r.test
               /\ last' = Call("compute", "none", r.out)
               /\ ret' = r.ret
               /\ UNCHANGED << user_prediction_properties, prediction_properties >>
    /\ computes' = computes + 1
    /\ UNCHANGED << which, dsVars, config, segment_performance, inited, context, eaVars, log, discarded >>

\* defaults of add_condition_drift_score_not_greater_than (7 decimals)
max_allowed_psi_score == 1500000
max_allowed_earth_movers_score == 750000

Scores(result) == {result[p].score : p \in DOMAIN result}
\* the thresholds a condition is added with: the defaults, or one of them
\* replaced by a score of the result it is applied to
Thresholds(result) ==
    { << max_allowed_psi_score, max_allowed_earth_movers_score >> }
    \cup { << s, max_allowed_earth_movers_score >> : s \in Scores(result) }
    \cup { << max_allowed_psi_score, s >> : s \in Scores(result) }

\* variant: the two thresholds are taken in the other order
condition_swapped(result, max_psi, max_emd) ==
    LET not_passing_categorical_columns ==
            {p \in DOMAIN result : result[p].score > max_emd /\ result[p].method = PSI}
        not_passing_numeric_columns ==
            {p \in DOMAIN result : result[p].score > max_psi /\ result[p].method = EMD}
    IN [type |-> "ConditionResult",
        category |-> IF not_passing_categorical_columns # {}
                        \/ not_passing_numeric_columns # {} THEN "FAIL" ELSE "PASS",
        details |-> << not_passing_categorical_columns, not_passing_numeric_columns >>]

\* variant: a score equal to its threshold does not pass (>= for >)
condition_strict(result, max_psi, max_emd) ==
    LET not_passing_categorical_columns ==
            {p \in DOMAIN result : result[p].score >= max_psi /\ result[p].method = PSI}
        not_passing_numeric_columns ==
            {p \in DOMAIN result : result[p].score >= max_emd /\ result[p].method = EMD}
    IN [type |-> "ConditionResult",
        category |-> IF not_passing_categorical_columns # {}
                        \/ not_passing_numeric_columns # {} THEN "FAIL" ELSE "PASS",
        details |-> << not_passing_categorical_columns, not_passing_numeric_columns >>]

\* the condition of add_condition_drift_score_not_greater_than, applied to
\* the value of a result; details holds the columns the message names
condition(result, max_psi, max_emd) ==
    LET not_passing_categorical_columns ==
            {p \in DOMAIN result : result[p].score > max_psi /\ result[p].method = PSI}
        not_passing_numeric_columns ==
            {p \in DOMAIN result : result[p].score > max_emd /\ result[p].method = EMD}
    IN [type |-> "ConditionResult",
        category |-> IF not_passing_categorical_columns # {}
                        \/ not_passing_numeric_columns # {} THEN "FAIL" ELSE "PASS",
        details |-> << not_passing_categorical_columns, not_passing_numeric_columns >>]

\* the condition is applied to the result compute has just returned; ret
\* keeps the value and the thresholds next to the condition's result
PD_condition(max_psi, max_emd) ==
    /\ which = "pd"
    /\ last = Call("compute", "none", "ok")
    /\ last' = Call("condition", "none", "ok")
    /\ ret' = [type |-> "ConditionResult", value |-> ret.value,
               max_allowed_psi_score |-> max_psi,
               max_allowed_earth_movers_score |-> max_emd,
               condition |-> condition(ret.value, max_psi, max_emd)]
    /\ UNCHANGED << which, dsVars, config, segment_performance, inited, context, pdVars,
                    eaVars, log, computes, discarded >>

PDNext ==
    \/ \E ctx \in PDContexts : PD_initialize_run(ctx)
    \/ \E b \in Batches, k \in DatasetKind : PD_update(b, k)
    \/ PD_compute
    \/ \E t \in (IF which = "pd" /\ ret.type = "CheckResult"
                 THEN Thresholds(ret.value) ELSE {}) : PD_condition(t[1], t[2])

\* --------------------------------------------------- ModelErrorAnalysis (ea)
image_properties ==
    << Property("Brightness", "continuous"), Property("Aspect Ratio", "continuous") >>

\* single_property['method'](images): one value per image
ImageMethod(name, batch) ==
    CASE name = "Brightness" -> [i \in DOMAIN batch |-> batch[i].brightness]
      [] name = "Aspect Ratio" -> [i \in DOMAIN batch |-> batch[i].aspect_ratio]

\* per_sample_cross_entropy / per_sample_mean_iou: one score per sample
scoring_func(batch) == [i \in DOMAIN batch |-> batch[i].error]

min_error_model_score == 50

\* context.assert_task_type(*expected): the task type of the run's dataset
assert_task_type(ctx, expected) == ctx.train_task \in expected

EA_initialize_run(ctx) ==
    /\ which = "ea"
    /\ IF ~assert_task_type(ctx, {CLASSIFICATION, OBJECT_DETECTION})
       THEN /\ last' = Call("initialize_run", "none", "UnsupportedTaskType")
            /\ UNCHANGED << inited, context, eaVars, log, computes, discarded >>
       ELSE /\ train_properties' = new_buffer(train_properties)
            /\ test_properties' = new_buffer(test_properties)
            /\ train_scores' = <<>>
            /\ test_scores' = <<>>
            /\ inited' = TRUE
            /\ context' = ctx
            /\ last' = Call("initialize_run", "none", "ok")
            /\ log' = <<>>
            /\ computes' = 0
            /\ trace' = << "INITIALIZED" >>
            /\ discarded' = (train_properties # EmptyDict \/ test_properties # EmptyDict
                              \/ train_scores # <<>> \/ test_scores # <<>>)
    /\ ret' = None
    /\ UNCHANGED << which, dsVars, config, segment_performance, pdVars >>

\* the loop of update over self.image_properties
RECURSIVE EA_extend(_, _, _)
EA_extend(properties, props, batch) ==
    IF props = <<>> THEN properties
    ELSE LET name == props[1].name
         IN EA_extend(Put(properties, name,
                          Get(properties, name) \o ImageMethod(name, batch)),
                      Tail(props), batch)

Visit(tr, state) == IF tr # <<>> /\ tr[Len(tr)] = state THEN tr ELSE Append(tr, state)

Buffers(tp, sp, ts, ss) ==
    [train_properties |-> tp, test_properties |-> sp,
     train_scores |-> ts, test_scores |-> ss]

\* lines 97-133 for a kind that is TRAIN or TEST: the properties and the
\* scores the kind selects are extended; an unsupported task type raises
\* after the properties were extended
EA_update_buffers(bufs, ctx, batch, dataset_kind) ==
    LET task_type == IF dataset_kind = TRAIN THEN ctx.train_task ELSE ctx.test_task
        supported == task_type \in {CLASSIFICATION, OBJECT_DETECTION}
        out == IF supported THEN "ok" ELSE "DeepchecksValueError"
    IN IF dataset_kind = TRAIN
       THEN [bufs |-> Buffers(
                EA_extend(bufs.train_properties, image_properties, batch),
                bufs.test_properties,
                IF supported THEN bufs.train_scores \o scoring_func(batch)
                ELSE bufs.train_scores,
                bufs.test_scores),
             out |-> out]
       ELSE [bufs |-> Buffers(
                bufs.train_properties,
                EA_extend(bufs.test_properties, image_properties, batch),
                bufs.train_scores,
                IF supported THEN bufs.test_scores \o scoring_func(batch)
                ELSE bufs.test_scores),
             out |-> out]

EA_update(batch, dataset_kind) ==
    /\ which = "ea"
    /\ Len(log) < MaxUpdates
    /\ IF dataset_kind \notin {TRAIN, TEST}
       THEN /\ last' = Call("update", dataset_kind, "RuntimeError")
            /\ UNCHANGED << eaVars, log >>
       ELSE IF ~inited
       THEN \* subscripting properties = None
            /\ last' = Call("update", dataset_kind, "TypeError")
            /\ UNCHANGED << eaVars, log >>
       ELSE LET new == EA_update_buffers(
                           Buffers(train_properties, test_properties,
                                   train_scores, test_scores),
                           context, batch, dataset_kind)
            IN /\ train_properties' = new.bufs.train_properties
               /\ test_properties' = new.bufs.test_properties
               /\ train_scores' = new.bufs.train_scores
               /\ test_scores' = new.bufs.test_scores
               /\ last' = Call("update", dataset_kind, new.out)
               /\ log' = Append(log, [kind |-> dataset_kind, batch |-> batch])
               /\ trace' = Visit(trace, "ACCUMULATING")
    /\ ret' = None
    /\ UNCHANGED << which, dsVars, config, segment_performance, inited, context, pdVars, computes, discarded >>

\* a missing value of a data frame (NaN), outside the range of the properties
NaN == 0 - 1
\* DataFrame.dropna(axis=1, how='all'): the columns holding a non-missing value
dropna(df) ==
    [p \in {q \in DOMAIN df : \E i \in DOMAIN df[q] : df[q][i] # NaN} |-> df[p]]

Rows(df) == IF DOMAIN df = {} THEN 0 ELSE Len(df[CHOOSE k \in DOMAIN df : TRUE])

RECURSIVE SumSeq(_)
SumSeq(s) == IF s = <<>> THEN 0 ELSE s[1] + SumSeq(Tail(s))

\* fits the auxiliary error model: "ok", the DeepchecksProcessError it
\* signals, or the error of a malformed input
model_error_contribution(train_df, train_y, test_df, test_y, r2, min_score) ==
    IF DOMAIN train_df = {} THEN "DeepchecksProcessError: no usable column"
    ELSE IF Rows(train_df) < 2 \/ Rows(test_df) < 2
         THEN "DeepchecksProcessError: too few samples"
    ELSE IF Len(train_y) # Rows(train_df) \/ Len(test_y) # Rows(test_df)
         THEN "ValueError"
    ELSE IF r2 < min_score THEN "DeepchecksProcessError: low error model score"
    ELSE "ok"

\* the feature importance the fitted error model gives to the columns, as
\* model_error_contribution returns it: ranked by descending contribution
RECURSIVE RankFi(_)
RankFi(entries) ==
    IF entries = <<>> THEN <<>>
    ELSE LET before == RankFi(SubSeq(entries, 1, Len(entries) - 1))
             x == entries[Len(entries)]
             k == Cardinality({i \in DOMAIN before :
                     before[i].contribution_score >= x.contribution_score})
         IN SubSeq(before, 1, k) \o << x >> \o SubSeq(before, k + 1, Len(before))

error_fi(columns, ctx) ==
    LET idx == {i \in DOMAIN image_properties : image_properties[i].name \in columns}
        Nth(n) == CHOOSE i \in idx : Cardinality({j \in idx : j < i}) = n - 1
    IN RankFi([n \in 1..Cardinality(idx) |->
                 [property_name |-> image_properties[Nth(n)].name,
                  contribution_score |-> ctx.fi[Nth(n)]]])

\* the segment result: the first max_features_to_show ranked properties
\* whose contribution exceeds min_feature_contribution, each with its
\* contribution and the mean error (in thousandths)
error_model_display_dataframe(fi, test_df, test_y, max_features_to_show, min_feature_contribution) ==
    LET top == SubSeq(fi, 1, IF Len(fi) < max_features_to_show THEN Len(fi)
                             ELSE max_features_to_show)
        kept == SelectSeq(top, LAMBDA e : e.contribution_score > min_feature_contribution)
    IN [i \in DOMAIN kept |->
          [property_name |-> kept[i].property_name,
           contribution_score |-> kept[i].contribution_score,
           mean_error_overall |-> (SumSeq(test_y) * 1000) \div Len(test_y)]]

n_display_samples == 5000

\* variant: n_display_samples is passed where max_properties_to_show belongs
EA_display_swapped(cfg, fi, test_df, test_y) ==
    error_model_display_dataframe(fi, test_df, test_y, n_display_samples,
                                  cfg.min_property_contribution)

\* the call of error_model_display_dataframe made by compute
EA_display(cfg, fi, test_df, test_y) ==
    error_model_display_dataframe(fi, test_df, test_y, cfg.max_properties_to_show,
                                  cfg.min_property_contribution)

ProcessErrors ==
    { "DeepchecksProcessError: no usable column",
      "DeepchecksProcessError: too few samples",
      "DeepchecksProcessError: low error model score" }

\* variant: no except clause, the DeepchecksProcessError leaves compute
EA_outcome_uncaught(bufs, ctx) ==
    LET train_property_df == dropna(bufs.train_properties)
        columns == DOMAIN train_property_df
        test_property_df == [p \in columns |-> bufs.test_properties[p]]
        fit == model_error_contribution(train_property_df, bufs.train_scores,
                   test_property_df, bufs.test_scores, ctx.r2, min_error_model_score)
    IN IF ~(columns \subseteq DOMAIN bufs.test_properties)
       THEN [out |-> "KeyError", ret |-> None, states |-> <<>>]
       ELSE IF fit # "ok"
       THEN [out |-> fit, ret |-> None, states |-> << "FITTING" >>]
       ELSE [out |-> "ok",
             ret |-> [type |-> "CheckResult",
                      value |-> EA_display(config, error_fi(columns, ctx),
                                           test_property_df, bufs.test_scores)],
             states |-> << "FITTING", "SUCCEEDED" >>]

\* compute on given buffers: how it ends, what it returns and the analyzer
\* states it goes through
EA_outcome(bufs, ctx) ==
    LET train_property_df == dropna(bufs.train_properties)
        columns == DOMAIN train_property_df
        test_property_df == [p \in columns |-> bufs.test_properties[p]]
        fit == model_error_contribution(train_property_df, bufs.train_scores,
                   test_property_df, bufs.test_scores, ctx.r2, min_error_model_score)
    IN IF ~(columns \subseteq DOMAIN bufs.test_properties)
       THEN \* test_property_df lacks the train columns
            [out |-> "KeyError", ret |-> None, states |-> <<>>]
       ELSE IF fit \in ProcessErrors
       THEN [out |-> "ok", ret |-> [type |-> "CheckFailure", exception |-> fit],
             states |-> << "FITTING",
                           IF fit = "DeepchecksProcessError: low error model score"
                           THEN "INSUFFICIENT_SIGNAL" ELSE "FAILED" >>]
       ELSE IF fit # "ok"
       THEN [out |-> fit, ret |-> None, states |-> << "FITTING" >>]
       ELSE [out |-> "ok",
             ret |-> [type |-> "CheckResult",
                      value |-> EA_display(config, error_fi(columns, ctx),
                                           test_property_df, bufs.test_scores)],
             states |-> << "FITTING", "SUCCEEDED" >>]

EA_compute ==
    /\ which = "ea"
    /\ computes < MaxComputes
    /\ LET r == EA_outcome(Buffers(train_properties, test_properties,
                                   train_scores, test_scores), context)
       IN /\ last' = Call("compute", "none", r.out)
          /\ ret' = r.ret
          /\ trace' = trace \o r.states
    /\ computes' = computes + 1
    /\ UNCHANGED << train_properties, test_properties, train_scores, test_scores >>
    /\ UNCHANGED << which, dsVars, config, segment_performance, inited, context, pdVars, log, discarded >>

EANext ==
    \/ \E ctx \in Contexts : EA_initialize_run(ctx)
    \/ \E b \in Batches, k \in DatasetKind : EA_update(b, k)
    \/ EA_compute

\* ------------------------------------------------- SegmentPerformance (sp)
SP_init(feature_1, feature_2, max_segments) ==
    /\ which = "sp"
    /\ ~segment_performance.constructed
    /\ IF bool(feature_1) /\ feature_1 = feature_2
       THEN /\ last' = Call("__init__", "none", "DeepchecksValueError: features")
            /\ segment_performance' =
                  [Unbuilt EXCEPT !.args = <<feature_1, feature_2, max_segments>>]
       ELSE IF ~isinstance_int(max_segments) \/ max_segments.value < 0
       THEN /\ last' = Call("__init__", "none", "DeepchecksValueError: num_segments")
            /\ segment_performance' =
                  [Unbuilt EXCEPT !.args = <<feature_1, feature_2, max_segments>>]
       ELSE /\ last' = Call("__init__", "none", "ok")
            /\ segment_performance' =
                  [constructed |-> TRUE, feature_1 |-> feature_1,
                   feature_2 |-> feature_2, max_segments |-> max_segments,
                   args |-> <<feature_1, feature_2, max_segments>>,
                   accessed |-> <<>>]
    /\ ret' = None
    /\ UNCHANGED << which, dsVars, config, inited, context, pdVars, eaVars, log, computes,
                    discarded >>

\* Series.sort_values(ascending=False)
RECURSIVE sort_values_descending(_)
sort_values_descending(series) ==
    IF series = <<>> THEN <<>>
    ELSE LET before == sort_values_descending(SubSeq(series, 1, Len(series) - 1))
             x == series[Len(series)]
             k == Cardinality({i \in DOMAIN before :
                     before[i].importance >= x.importance})
         IN SubSeq(before, 1, k) \o << x >> \o SubSeq(before, k + 1, Len(before))

\* partition_column on a categorical feature: the filters of categorical_bins
partition_column(dataset, feature, max_segments) ==
    categorical_bins([i \in DOMAIN dataset.data |-> dataset.data[i][feature]],
                     max_segments)

\* filter.filter(data): the rows whose feature value is in the bin
Filter(data, feature, bin) == SelectSeq(data, LAMBDA row : row[feature] \in bin.values)

\* the scorer: the share (in hundredths) of rows the model predicts rightly
scorer(data) ==
    (100 * Cardinality({i \in DOMAIN data : data[i]["y"] = 1})) \div Len(data)

\* variant: a missing feature is filled in from the dataset (or for and)
SP_select_guess(self, features, features_importance) ==
    IF self.feature_1 = NoFeature \/ self.feature_2 = NoFeature
    THEN [error |-> "none", feature_1 |-> features[1], feature_2 |-> features[2],
          features_importance |-> features_importance]
    ELSE [error |-> "none", feature_1 |-> self.feature_1,
          feature_2 |-> self.feature_2, features_importance |-> features_importance]

\* lines 87-95: the two features of the run, the feature importance as the
\* run leaves it, and the error of giving exactly one feature
SP_select(self, features, features_importance) ==
    IF self.feature_1 = NoFeature /\ self.feature_2 = NoFeature
    THEN IF features_importance = <<>>
         THEN [error |-> "none", feature_1 |-> features[1], feature_2 |-> features[2],
               features_importance |-> features_importance]
         ELSE LET sorted == sort_values_descending(features_importance)
              IN [error |-> "none", feature_1 |-> sorted[1].feature,
                  feature_2 |-> sorted[2].feature, features_importance |-> sorted]
    ELSE IF self.feature_1 = NoFeature \/ self.feature_2 = NoFeature
    THEN [error |-> "DeepchecksValueError", feature_1 |-> self.feature_1,
          feature_2 |-> self.feature_2, features_importance |-> features_importance]
    ELSE [error |-> "none", feature_1 |-> self.feature_1,
          feature_2 |-> self.feature_2, features_importance |-> features_importance]

\* variant: the filter of feature_2 is applied to the whole data (line 107
\* filtering data instead of feature_1_df)
SP_value_unnested(data, feature_1, feature_2, feature_1_filters, feature_2_filters) ==
    LET cells == (DOMAIN feature_1_filters) \X (DOMAIN feature_2_filters)
        Cell(c) == Filter(data, feature_2, feature_2_filters[c[2]])
    IN [type |-> "CheckResult",
        counts |-> [c \in cells |-> Len(Cell(c))],
        scores |-> [c \in cells |->
                      IF Cell(c) = <<>> THEN None
                      ELSE [type |-> "float", value |-> scorer(Cell(c))]],
        scores_text |-> [c \in cells |->
                      IF Cell(c) = <<>> THEN ""
                      ELSE ToString(scorer(Cell(c))) \o "(" \o ToString(Len(Cell(c))) \o ")"],
        scored |-> {c \in cells : Cell(c) # <<>>},
        feature_1 |-> feature_1, feature_2 |-> feature_2]

\* lines 100-134 and 145: counts, scores (None for an empty cell), the text
\* of each cell and the cells the scorer was called for
SP_value(data, feature_1, feature_2, feature_1_filters, feature_2_filters) ==
    LET cells == (DOMAIN feature_1_filters) \X (DOMAIN feature_2_filters)
        Cell(c) == Filter(Filter(data, feature_1, feature_1_filters[c[1]]),
                          feature_2, feature_2_filters[c[2]])
    IN [type |-> "CheckResult",
        counts |-> [c \in cells |-> Len(Cell(c))],
        scores |-> [c \in cells |->
                      IF Cell(c) = <<>> THEN None
                      ELSE [type |-> "float", value |-> scorer(Cell(c))]],
        scores_text |-> [c \in cells |->
                      IF Cell(c) = <<>> THEN ""
                      ELSE ToString(scorer(Cell(c))) \o "(" \o ToString(Len(Cell(c))) \o ")"],
        scored |-> {c \in cells : Cell(c) # <<>>},
        feature_1 |-> feature_1, feature_2 |-> feature_2]

SP_run_logic(dataset_type) ==
    /\ which = "sp"
    /\ segment_performance.constructed
    /\ LET dataset == IF dataset_type = "train" THEN context.train ELSE context.test
           read == << dataset_type, "model", "features_importance", "scorer",
                      "features" >>
           features == dataset.features
           sel == SP_select(segment_performance, features,
                            context.features_importance)
           k == segment_performance.max_segments.value
           feature_1_filters == partition_column(dataset, sel.feature_1, k)
           feature_2_filters == partition_column(dataset, sel.feature_2, k)
       IN IF Len(features) < 2
          THEN /\ last' = Call("run_logic", dataset_type, "DatasetValidationError")
               /\ ret' = None
               /\ segment_performance' = [segment_performance EXCEPT !.accessed = read]
               /\ UNCHANGED context
          ELSE IF sel.error # "none"
          THEN /\ last' = Call("run_logic", dataset_type, sel.error)
               /\ ret' = None
               /\ segment_performance' = [segment_performance EXCEPT !.accessed = read]
               /\ UNCHANGED context
          ELSE /\ segment_performance' =
                     [segment_performance EXCEPT !.feature_1 = sel.feature_1,
                                                 !.feature_2 = sel.feature_2,
                                                 !.accessed = Append(read, "data")]
               /\ context' = [context EXCEPT
                                 !.features_importance = sel.features_importance]
               /\ IF feature_1_filters = <<>> \/ feature_2_filters = <<>>
                  THEN /\ last' = Call("run_logic", dataset_type, "InvalidParameter")
                       /\ ret' = None
                  ELSE /\ last' = Call("run_logic", dataset_type, "ok")
                       /\ ret' = SP_value(dataset.data, sel.feature_1, sel.feature_2,
                                          feature_1_filters, feature_2_filters)
    /\ UNCHANGED << which, dsVars, config, inited, pdVars, eaVars, log, computes, discarded >>

SPNext ==
    \/ \E f1, f2 \in Features, ms \in MaxSegmentsArgs : SP_init(f1, f2, ms)
    \/ \E t \in {"train", "test"} : SP_run_logic(t)

\* ----------------------------------------------------- MixedDataTypes (md)
\* select_from_dataframe: the columns named, or all but the ignored ones
select_from_dataframe(df, columns, ignore_columns) ==
    IF columns # <<>>
    THEN DataFrame(SelectSeq(df.columns,
                             LAMBDA c : \E i \in DOMAIN columns : columns[i] = c),
                   df.data)
    ELSE DataFrame(SelectSeq(df.columns,
                             LAMBDA c : \A i \in DOMAIN ignore_columns :
                                           ignore_columns[i] # c),
                   df.data)

\* Series.dropna()
column_dropna(column) == SelectSeq(column, LAMBDA x : x.type # "nan")

\* is_string_column: the column holds strings
is_string_column(column_data) ==
    \E i \in DOMAIN column_data : column_data[i].type = "str"

\* lines 105-110: float(x) raises no ValueError
is_float(x) == x.type = "float" \/ x.value \in {"1", "2", "3"}

NoMix == <<>>

\* variant: the share of strings is taken of all rows but one
check_mixed_percentage_biased(column_data) ==
    LET total_rows == Len(column_data)
        nums == Cardinality({i \in DOMAIN column_data : is_float(column_data[i])})
    IN IF nums \in {total_rows, 0} THEN NoMix
       ELSE [strings |-> Ratio(Abs(nums - total_rows) - 1, total_rows),
             numbers |-> Ratio(nums, total_rows)]

\* lines 102-120
check_mixed_percentage(column_data) ==
    LET total_rows == Len(column_data)
        nums == Cardinality({i \in DOMAIN column_data : is_float(column_data[i])})
    IN IF nums \in {total_rows, 0} THEN NoMix
       ELSE [strings |-> Ratio(Abs(nums - total_rows), total_rows),
             numbers |-> Ratio(nums, total_rows)]

\* lines 96-99
get_data_mix(column_data) ==
    IF is_string_column(column_data) THEN check_mixed_percentage(column_data)
    ELSE NoMix

\* lines 71-93: the result dictionary, its keys in insertion order, and the
\* display (the table of the mixed columns, or the nothing-found note)
MD_result(df) ==
    LET Mix(c) == get_data_mix(column_dropna(df.data[c]))
        keys == SelectSeq(df.columns, LAMBDA c : Mix(c) # NoMix)
    IN [type |-> "CheckResult",
        value |-> [c \in {keys[i] : i \in DOMAIN keys} |-> Mix(c)],
        keys |-> keys,
        display |-> IF keys # <<>> THEN << "N_TOP_MESSAGE", keys >>
                    ELSE << "nothing_found_on_columns", df.columns >>]

MD_run_logic(dataset_type) ==
    /\ which = "md"
    /\ computes < MaxComputes
    /\ LET dataset == IF dataset_type = "train" THEN context.train ELSE context.test
       IN ret' = MD_result(select_from_dataframe(dataset, config.columns,
                                                 config.ignore_columns))
    /\ last' = Call("run_logic", dataset_type, "ok")
    /\ computes' = computes + 1
    /\ UNCHANGED << which, dsVars, config, segment_performance, inited, context,
                    pdVars, eaVars, log, discarded >>

\* variant: the bounds of the range belong to the danger zone
rare_type_ratio_condition_closed(result, keys, ratio_range) ==
    LET rarer_ratio(col) == RatioMin(result[col].strings, result[col].numbers)
        failing_columns ==
            SelectSeq(keys, LAMBDA col : /\ ~Less(rarer_ratio(col), ratio_range[1])
                                         /\ ~Less(ratio_range[2], rarer_ratio(col)))
    IN IF failing_columns # <<>>
       THEN [category |-> "WARN", details |-> failing_columns]
       ELSE [category |-> "PASS", details |-> <<>>]

\* lines 137-147: the condition function of
\* add_condition_rare_type_ratio_not_in_range
rare_type_ratio_condition(result, keys, ratio_range) ==
    LET rarer_ratio(col) == RatioMin(result[col].strings, result[col].numbers)
        failing_columns ==
            SelectSeq(keys, LAMBDA col : /\ Less(ratio_range[1], rarer_ratio(col))
                                         /\ Less(rarer_ratio(col), ratio_range[2]))
    IN IF failing_columns # <<>>
       THEN [category |-> "WARN", details |-> failing_columns]
       ELSE [category |-> "PASS", details |-> <<>>]

\* the condition added with ratio_range, decided on the result of the run
MD_condition(ratio_range) ==
    /\ which = "md"
    /\ last.op = "run_logic"
    /\ ret.type = "CheckResult"
    /\ last' = Call("condition", last.kind, "ok")
    /\ ret' = [type |-> "ConditionResult", value |-> ret.value, keys |-> ret.keys,
               ratio_range |-> ratio_range,
               condition |-> rare_type_ratio_condition(ret.value, ret.keys,
                                                       ratio_range)]
    /\ UNCHANGED << which, dsVars, config, segment_performance, inited, context,
                    pdVars, eaVars, log, computes, discarded >>

MDNext ==
    \/ \E t \in {"train", "test"} : MD_run_logic(t)
    \/ \E r \in RatioRanges : MD_condition(r)

\* ------------------------------------------------ display_suite_result (ds)
\* variant: the reason of a failure row is the message alone
failure_row_bare(result) ==
    [Check |-> result.header, Reason |-> result.exception.message, sort |-> 1]

\* lines 118-120: the row of a failed check
failure_row(result) ==
    [Check |-> result.header,
     Reason |-> result.exception.class \o ": " \o result.exception.message,
     sort |-> 1]

\* line 116: the row of a result that has no display
nothing_found_row(result) ==
    [Check |-> result.header, Reason |-> "Nothing found", sort |-> 2]

\* one pass of the loop of lines 107-125
DS_collect_one(lists, result) ==
    IF lists.error # "none" THEN lists
    ELSE IF result.type = "CheckResult"
    THEN [lists EXCEPT
             !.checks_with_conditions =
                 IF result.have_conditions THEN Append(@, result) ELSE @,
             !.display_table =
                 IF result.have_conditions /\ result.have_display
                 THEN Append(@, result) ELSE @,
             !.checks_wo_conditions =
                 IF ~result.have_conditions /\ result.have_display
                 THEN Append(@, result) ELSE @,
             !.others_table =
                 IF ~result.have_display THEN Append(@, nothing_found_row(result))
                 ELSE @]
    ELSE IF result.type = "CheckFailure"
    THEN [lists EXCEPT !.others_table = Append(@, failure_row(result))]
    ELSE [lists EXCEPT !.error = "DeepchecksValueError"]

\* lines 107-125: the four lists after the loop has seen results[1..n], or
\* the error of an element that is neither a result nor a failure
RECURSIVE DS_collect(_, _)
DS_collect(results, n) ==
    IF n = 0
    THEN [error |-> "none", checks_with_conditions |-> <<>>,
          checks_wo_conditions |-> <<>>, display_table |-> <<>>,
          others_table |-> <<>>]
    ELSE DS_collect_one(DS_collect(results, n - 1), results[n])

\* the place of x among the results sorted before it
sorted_insert(before, x) ==
    SubSeq(before, 1, Cardinality({i \in DOMAIN before : before[i].priority <= x.priority}))
    \o << x >>
    \o SubSeq(before, Cardinality({i \in DOMAIN before : before[i].priority <= x.priority}) + 1,
              Len(before))

\* line 127: sorted(display_table, key=priority), equal keys keep their order
RECURSIVE sorted_by_priority(_)
sorted_by_priority(table) ==
    IF table = <<>> THEN <<>>
    ELSE sorted_insert(sorted_by_priority(SubSeq(table, 1, Len(table) - 1)),
                       table[Len(table)])

\* lines 211-213: the rows ordered by their sort column, which is dropped
others_rows(others_table) ==
    [i \in DOMAIN others_table |->
        [Check |-> (SelectSeq(others_table, LAMBDA r : r.sort = 1)
                      \o SelectSeq(others_table, LAMBDA r : r.sort = 2))[i].Check,
         Reason |-> (SelectSeq(others_table, LAMBDA r : r.sort = 1)
                      \o SelectSeq(others_table, LAMBDA r : r.sort = 2))[i].Reason]]

\* lines 129-224: the sections displayed for the lists of the loop; with
\* widgets they are the children of the tabs, of which the tab of the checks
\* without conditions is given none
DS_sections(results, lists, is_widgets) ==
    [type |-> "report",
     widgets |-> is_widgets,
     check_names |-> { results[i].header : i \in DOMAIN results },
     conditions_summary |-> lists.checks_with_conditions,
     additional_outputs |-> sorted_by_priority(lists.display_table),
     checks_wo_tab |-> <<>>,
     others |-> others_rows(lists.others_table)]

\* what display_suite_result displays for the results, and how it ends
DS_ended(results, lists, is_widgets) ==
    IF results = <<>>
    THEN [out |-> "ok", displayed |-> << [type |-> "Suite is empty."] >>]
    ELSE IF lists.error # "none"
    THEN [out |-> lists.error, displayed |-> <<>>]
    ELSE [out |-> "ok", displayed |-> << DS_sections(results, lists, is_widgets) >>]

display_suite_result(results, is_widgets) ==
    DS_ended(results, DS_collect(results, Len(results)), is_widgets)

DS_display(is_widgets) ==
    /\ which = "ds"
    /\ last.op = "none"
    /\ \E r \in { display_suite_result(suite_results, is_widgets) } :
          /\ displayed' = displayed \o r.displayed
          /\ last' = Call("display_suite_result", "none", r.out)
    /\ ret' = None
    /\ UNCHANGED << which, suite_results, config, segment_performance, inited,
                    context, pdVars, eaVars, log, computes, discarded >>

DSNext == \E w \in BOOLEAN : DS_display(w)

Next == PDNext \/ EANext \/ SPNext \/ MDNext \/ DSNext

Spec == Init /\ [][Next]_vars

\* ================================================================== claims
\* values of one property extracted from the calls of one kind, in call order
RECURSIVE Accumulated(_, _, _)
Accumulated(name, kind, calls) ==
    IF calls = <<>> THEN <<>>
    ELSE (IF calls[1].kind = kind
          THEN properties_flatten(Method(name, calls[1].batch)) ELSE <<>>)
         \o Accumulated(name, kind, Tail(calls))

TwiceBatch1 == << [kind |-> TRAIN, batch |-> Batch1], [kind |-> TRAIN, batch |-> Batch1] >>

C2_UpdateTouchesOneKind ==
    [][ /\ (last'.op = "update" /\ last'.kind = TRAIN) =>
              /\ test_prediction_properties' = test_prediction_properties
              /\ test_properties' = test_properties
              /\ test_scores' = test_scores
        /\ (last'.op = "update" /\ last'.kind = TEST) =>
              /\ train_prediction_properties' = train_prediction_properties
              /\ train_properties' = train_properties
              /\ train_scores' = train_scores ]_vars

C2_Witness ==
    /\ last = Call("update", TEST, "ok")
    /\ Len(log) >= 2
    /\ log[1].kind = TRAIN
    /\ \/ which = "pd" /\ test_prediction_properties # EmptyDict
                       /\ train_prediction_properties # EmptyDict
       \/ which = "ea" /\ test_scores # <<>> /\ train_scores # <<>>

\* the buffers a sequence of update calls builds from fresh buffers
RECURSIVE PD_replay(_, _, _)
PD_replay(calls, props, bufs) ==
    IF calls = <<>> THEN bufs
    ELSE PD_replay(Tail(calls), props,
                   PD_update_buffers(bufs.train, bufs.test, props,
                                     calls[1].batch, calls[1].kind))

RECURSIVE EA_replay(_, _, _)
EA_replay(calls, ctx, bufs) ==
    IF calls = <<>> THEN bufs
    ELSE EA_replay(Tail(calls), ctx,
                   EA_update_buffers(bufs, ctx, calls[1].batch, calls[1].kind).bufs)

PD_fresh == [train |-> EmptyDict, test |-> EmptyDict]
EA_fresh == Buffers(EmptyDict, EmptyDict, <<>>, <<>>)
EA_now == Buffers(train_properties, test_properties, train_scores, test_scores)

\* C3: a successful initialize_run leaves both buffers (and both score lists)
\* empty whatever they held, and the first compute of a run ends and returns
\* what compute gives on buffers built from this run's update calls alone.
C3_InitializeRunResets ==
    [][ /\ (last'.op = "initialize_run" /\ last'.out = "ok") =>
              /\ train_prediction_properties' = EmptyDict
              /\ test_prediction_properties' = EmptyDict
              /\ train_properties' = EmptyDict
              /\ test_properties' = EmptyDict
              /\ train_scores' = <<>>
              /\ test_scores' = <<>>
        /\ (last'.op = "compute" /\ inited /\ computes = 0 /\ which = "pd") =>
              LET b == PD_replay(log, prediction_properties, PD_fresh)
                  r == PD_outcome(prediction_properties, b.train, b.test)
              IN last'.out = r.out /\ ret' = r.ret
        /\ (last'.op = "compute" /\ inited /\ computes = 0 /\ which = "ea") =>
              LET r == EA_outcome(EA_replay(log, context, EA_fresh), context)
              IN last'.out = r.out /\ ret' = r.ret ]_vars

\* a second run, begun on buffers that held values, has computed a result
C3_Witness ==
    /\ discarded
    /\ log # <<>>
    /\ last = Call("compute", "none", "ok")
    /\ ret.type = "CheckResult"

DeclaredNames == { prediction_properties[i].name : i \in DOMAIN prediction_properties }

\* C4 as stated: once compute has run, a later update call of the run is
\* rejected.
C4_UpdateRejectedAfterCompute ==
    (which = "pd" /\ computes >= 1 /\ last.op = "update") => last.out # "ok"

\* C4 as amended: compute adds no value to and removes none from any buffer,
\* and an update call after compute is accepted and appends the flattened
\* values of its batch to the buffer its kind selects, as before compute.
C4_UpdateAcceptedAfterCompute ==
    [][ /\ (which = "pd" /\ last'.op = "compute") =>
              \A n \in DeclaredNames :
                  /\ Len(Get(train_prediction_properties', n))
                       = Len(Get(train_prediction_properties, n))
                  /\ Len(Get(test_prediction_properties', n))
                       = Len(Get(test_prediction_properties, n))
        /\ (which = "pd" /\ inited /\ computes >= 1 /\ last'.op = "update"
              /\ last'.kind \in {TRAIN, TEST}) =>
              /\ last'.out = "ok"
              /\ Len(log') = Len(log) + 1
              /\ \A n \in DeclaredNames :
                    LET added == properties_flatten(Method(n, log'[Len(log')].batch))
                    IN IF last'.kind = TRAIN
                       THEN Get(train_prediction_properties', n)
                              = Get(train_prediction_properties, n) \o added
                       ELSE Get(test_prediction_properties', n)
                              = Get(test_prediction_properties, n) \o added ]_vars

C4_Witness ==
    /\ which = "pd"
    /\ computes >= 1
    /\ last = Call("update", TRAIN, "ok")
    /\ Len(train_prediction_properties["Samples Per Class"]) >= 2

\* all interleavings of two call sequences that keep the order within each
RECURSIVE Merges(_, _)
Merges(a, b) ==
    IF a = <<>> THEN {b}
    ELSE IF b = <<>> THEN {a}
    ELSE { << a[1] >> \o m : m \in Merges(Tail(a), b) }
           \cup { << b[1] >> \o m : m \in Merges(a, Tail(b)) }

IsTrain(c) == c.kind = TRAIN
IsTest(c) == c.kind = TEST
Orders == Merges(SelectSeq(log, IsTrain), SelectSeq(log, IsTest))

\* C5: the buffers do not depend on how the TRAIN and TEST batches are
\* interleaved: every delivery order of the run's batches that keeps the
\* order of the TRAIN batches and of the TEST batches builds the buffers the
\* run holds when compute is called, and compute ends and returns the same.
C5_InterleavingIndependent ==
    inited =>
      /\ (which = "pd" /\ computes = 0) =>
            \A o \in Orders :
               LET b == PD_replay(o, prediction_properties, PD_fresh)
               IN /\ b.train = train_prediction_properties
                  /\ b.test = test_prediction_properties
      /\ (which = "ea" /\ computes = 0) =>
            \A o \in Orders : EA_replay(o, context, EA_fresh) = EA_now
      /\ (which = "pd" /\ computes = 1 /\ last.op = "compute") =>
            \A o \in Orders :
               LET b == PD_replay(o, prediction_properties, PD_fresh)
                   r == PD_outcome(prediction_properties, b.train, b.test)
               IN r.out = last.out /\ r.ret = ret
      /\ (which = "ea" /\ computes = 1 /\ last.op = "compute") =>
            \A o \in Orders :
               LET r == EA_outcome(EA_replay(o, context, EA_fresh), context)
               IN r.out = last.out /\ r.ret = ret

\* a computed result whose batches came TEST, TRAIN, TEST
C5_Witness ==
    /\ Len(log) = 3
    /\ log[1].kind = TEST /\ log[2].kind = TRAIN /\ log[3].kind = TEST
    /\ log[1].batch # log[3].batch
    /\ computes = 1
    /\ last = Call("compute", "none", "ok")
    /\ ret.type = "CheckResult"

\* the scorer, on the buffers compute left, of declared property i
Drift(i) ==
    LET p == prediction_properties[i]
    IN PD_score_property(p, Get(train_prediction_properties, p.name),
                            Get(test_prediction_properties, p.name))
Scorable(i) == Drift(i).error = "none"
AfterCompute == which = "pd" /\ inited /\ last.op = "compute"

\* C6 as stated: when scoring one property fails during compute, the other
\* declared properties are still scored and their results returned.
C6_OtherPropertiesStillScored ==
    AfterCompute =>
       \A i \in DOMAIN prediction_properties :
           Scorable(i) =>
              /\ ret.type = "CheckResult"
              /\ prediction_properties[i].name \in DOMAIN ret.value

\* C6 as amended: an error raised while scoring one property propagates out
\* of compute: compute raises the error of the first declared property that
\* cannot be scored and returns no result for any property; it returns a
\* result exactly when every declared property can be scored.
C6_ErrorAbortsCompute ==
    AfterCompute =>
       LET failing == { i \in DOMAIN prediction_properties : ~Scorable(i) }
       IN IF failing = {}
          THEN last.out = "ok" /\ ret.type = "CheckResult"
          ELSE LET k == CHOOSE i \in failing : \A j \in failing : i <= j
               IN last.out = Drift(k).error /\ ret = None

\* the class property was scorable, the area property failed
C6_Witness ==
    /\ AfterCompute
    /\ prediction_properties = DEFAULT_OBJECT_DETECTION_PREDICTION_PROPERTIES
    /\ last.out = "InsufficientData"
    /\ Scorable(1) /\ ~Scorable(2) /\ Scorable(3)

OnePopulationEmpty(i) ==
    LET n == prediction_properties[i].name
    IN (Get(train_prediction_properties, n) = <<>>)
         # (Get(test_prediction_properties, n) = <<>>)
CategoryOnlyInTest(i) ==
    LET n == prediction_properties[i].name
        tr == Get(train_prediction_properties, n)
        te == Get(test_prediction_properties, n)
    IN /\ prediction_properties[i].output_type # "continuous"
       /\ \E j \in DOMAIN te : \A k \in DOMAIN tr : tr[k] # te[j]

DeclIndex(n) == CHOOSE i \in DOMAIN prediction_properties : prediction_properties[i].name = n

\* C8: the properties are presented in descending order of drift score,
\* properties of equal score in declaration order, and the value holds one
\* {score, method} entry per declared property.
C8_RankedByScore ==
    (AfterCompute /\ last.out = "ok") =>
       LET order == ret.display
           score(n) == ret.value[n].score
       IN /\ DOMAIN ret.value = DeclaredNames
          /\ \A n \in DeclaredNames : DOMAIN ret.value[n] = {"score", "method"}
          /\ Len(order) = Len(prediction_properties)
          /\ { order[i] : i \in DOMAIN order } = DeclaredNames
          /\ \A i \in DOMAIN order : \A j \in DOMAIN order :
                i < j => /\ score(order[i]) >= score(order[j])
                         /\ score(order[i]) = score(order[j]) =>
                               DeclIndex(order[i]) < DeclIndex(order[j])

\* three properties ranked, two of them with the same score
C8_Witness ==
    /\ AfterCompute /\ last.out = "ok"
    /\ Len(ret.display) = 3
    /\ Len(log) = 3
    /\ \E i \in 1..2 : ret.value[ret.display[i]].score = ret.value[ret.display[i + 1]].score

\* C9: the method reported for a property depends on its declared
\* output_type alone: PSI for class_id and discrete, Earth Mover's Distance
\* for continuous, whatever values were accumulated.
C9_MethodByOutputType ==
    (AfterCompute /\ last.out = "ok") =>
       \A i \in DOMAIN prediction_properties :
           ret.value[prediction_properties[i].name].method =
              (IF prediction_properties[i].output_type \in {"class_id", "discrete"}
               THEN PSI ELSE EMD)

\* a discrete property with three distinct values scored next to a continuous one
C9_Witness ==
    /\ AfterCompute /\ last.out = "ok"
    /\ prediction_properties = DEFAULT_OBJECT_DETECTION_PREDICTION_PROPERTIES
    /\ ret.value["Bounding Box Area"].method = EMD
    /\ ret.value["Bounding Box Area"].score > 0
    /\ Len(Distinct(train_prediction_properties["Number of Bounding Boxes Per Image"]
                     \o test_prediction_properties["Number of Bounding Boxes Per Image"])) = 3

Terminal == { "SUCCEEDED", "INSUFFICIENT_SIGNAL", "FAILED" }
IsPrefix(a, b) == Len(a) <= Len(b) /\ a = SubSeq(b, 1, Len(a))

\* C10 as stated: a run moves along INITIALIZED, ACCUMULATING, FITTING and
\* one terminal state only: no state is skipped or revisited and nothing
\* follows a terminal state.
C10_LinearLifecycle ==
    which = "ea" =>
       \E t \in Terminal :
           IsPrefix(trace, << "INITIALIZED", "ACCUMULATING", "FITTING", t >>)

\* C10 as amended: update is accepted only after initialize_run and puts the
\* run in ACCUMULATING; a compute that returns goes through FITTING into
\* SUCCEEDED (a result) or a check failure, otherwise a KeyError or
\* ValueError leaves it. The order is not enforced: compute is accepted with
\* nothing accumulated, and after a terminal state update is accepted again
\* and takes the run back to ACCUMULATING.
C10_LifecycleAsCoded ==
    [][ which = "ea" =>
         /\ (last'.op = "update" /\ last'.out = "ok") =>
               /\ inited
               /\ trace'[1] = "INITIALIZED"
               /\ trace'[Len(trace')] = "ACCUMULATING"
         /\ last'.op = "compute" =>
               IF last'.out = "ok"
               THEN /\ Len(trace') = Len(trace) + 2
                    /\ SubSeq(trace', 1, Len(trace)) = trace
                    /\ trace'[Len(trace) + 1] = "FITTING"
                    /\ trace'[Len(trace')] \in Terminal
                    /\ (trace'[Len(trace')] = "SUCCEEDED") = (ret'.type = "CheckResult")
                    /\ (trace'[Len(trace')] # "SUCCEEDED") = (ret'.type = "CheckFailure")
               ELSE last'.out \in {"KeyError", "ValueError"} /\ ret' = None
         /\ (inited /\ trace # <<>> /\ trace[Len(trace)] \in Terminal
               /\ last'.op = "update" /\ last'.kind \in {TRAIN, TEST}) =>
               /\ last'.out \in {"ok", "DeepchecksValueError"}
               /\ trace' = Append(trace, "ACCUMULATING") ]_vars

\* compute right after initialize_run, then an accepted update, then a
\* second compute that succeeds
C10_Witness ==
    /\ which = "ea"
    /\ Len(trace) >= 6
    /\ SubSeq(trace, 1, 4) = << "INITIALIZED", "FITTING", "FAILED", "ACCUMULATING" >>
    /\ trace[Len(trace)] = "SUCCEEDED"

\* the accumulated buffers let the auxiliary error model be fitted and scored
\* (a fit with a perfect score would succeed on them)
FitScored ==
    /\ DOMAIN train_properties \subseteq DOMAIN test_properties
    /\ model_error_contribution(train_properties, train_scores,
           [p \in DOMAIN train_properties |-> test_properties[p]], test_scores,
           100, min_error_model_score) = "ok"

\* C11: when the held-out score of the auxiliary error model is below
\* min_error_model_score, compute raises nothing and returns a check failure
\* (the run ends in INSUFFICIENT_SIGNAL) that carries no segment value.
C11_LowScoreIsInsufficientSignal ==
    (which = "ea" /\ last.op = "compute" /\ FitScored
        /\ context.r2 < min_error_model_score)
    => /\ last.out = "ok"
       /\ ret.type = "CheckFailure"
       /\ "value" \notin DOMAIN ret
       /\ trace[Len(trace)] = "INSUFFICIENT_SIGNAL"

C11_Witness ==
    /\ which = "ea" /\ last.op = "compute" /\ FitScored
    /\ context.r2 < min_error_model_score
    /\ Rows(train_properties) >= 2 /\ Rows(test_properties) >= 2
    /\ ret.type = "CheckFailure"

\* the feature matrix has no usable column, or a population has fewer than
\* two samples
TooLittleData ==
    \/ DOMAIN dropna(train_properties) = {}
    \/ Rows(train_properties) < 2
    \/ Rows(test_properties) < 2

\* C12: when the feature matrix has no usable column or a population has
\* fewer than two samples, compute returns a check failure and no exception
\* leaves compute.
C12_TooLittleDataIsCheckFailure ==
    (which = "ea" /\ last.op = "compute" /\ TooLittleData)
    => (last.out = "ok" /\ ret.type = "CheckFailure")

\* the contribution the run's error model gives to an image property
Contribution(name) ==
    context.fi[CHOOSE i \in DOMAIN image_properties : image_properties[i].name = name]
Reported == {ret.value[i].property_name : i \in DOMAIN ret.value}

\* C13: a successful compute reports at most max_properties_to_show
\* properties, in descending order of contribution, each with a contribution
\* above min_property_contribution, and no unreported property above the
\* minimum outranks a reported one.
C13_TopContributionsReported ==
    (which = "ea" /\ last.op = "compute" /\ ret.type = "CheckResult")
    => /\ Len(ret.value) <= config.max_properties_to_show
       /\ \A i \in DOMAIN ret.value :
            /\ ret.value[i].contribution_score = Contribution(ret.value[i].property_name)
            /\ ret.value[i].contribution_score > min_property_contribution
       /\ \A i, j \in DOMAIN ret.value :
            /\ i < j => ret.value[i].contribution_score >= ret.value[j].contribution_score
            /\ i # j => ret.value[i].property_name # ret.value[j].property_name
       /\ \A p \in DOMAIN test_properties \ Reported :
            \/ Contribution(p) <= min_property_contribution
            \/ /\ Len(ret.value) = config.max_properties_to_show
               /\ \A i \in DOMAIN ret.value :
                    Contribution(p) <= ret.value[i].contribution_score

\* a run whose two properties both contribute above the minimum, of which a
\* check constructed with max_properties_to_show=1 reports the larger one
C13_Witness ==
    /\ which = "ea" /\ last.op = "compute" /\ ret.type = "CheckResult"
    /\ config.max_properties_to_show = 1
    /\ \A i \in DOMAIN context.fi : context.fi[i] > min_property_contribution
    /\ Len(ret.value) = 1
    /\ ret.value[1].property_name = "Aspect Ratio"

\* the last call constructed (or failed to construct) a SegmentPerformance
Constructing == which = "sp" /\ last.op = "__init__"
ValueErrors ==
    { "DeepchecksValueError: features", "DeepchecksValueError: num_segments" }
PositiveInteger(x) == x.type = "int" /\ x.value > 0

\* C14: constructing SegmentPerformance with a max_segments that is not a
\* positive integer fails with a value error, and builds no object.
C14_NonPositiveMaxSegmentsRejected ==
    (Constructing /\ ~PositiveInteger(segment_performance.args[3]))
    => (last.out \in ValueErrors /\ ~segment_performance.constructed)

\* C15: constructing SegmentPerformance with feature_1 and feature_2 both
\* given and equal fails with a value error whatever the feature label is,
\* and succeeds (with the default max_segments) when both are omitted.
C15_EqualFeaturesRejected ==
    Constructing =>
        LET args == segment_performance.args
        IN /\ (args[1] # NoFeature /\ args[1] = args[2])
                => (last.out \in ValueErrors /\ ~segment_performance.constructed)
           /\ (args[1] = NoFeature /\ args[2] = NoFeature
                 /\ args[3] = IntArg(max_segments_default))
                => (last.out = "ok" /\ segment_performance.constructed)

ExactlyOne(f1, f2) == (f1 = NoFeature) # (f2 = NoFeature)

\* C16 (as stated): a check configured with exactly one of feature_1 and
\* feature_2 is rejected with a value error by the constructor.
C16_OneFeatureRejectedAtConstruction ==
    (Constructing /\ ExactlyOne(segment_performance.args[1], segment_performance.args[2]))
    => (last.out \in ValueErrors /\ ~segment_performance.constructed)

\* C16 (amended): the constructor accepts exactly one feature (given a valid
\* max_segments); run_logic rejects such a check, after it has read the
\* dataset, the model, the feature importance, the scorer and the features of
\* the context: with DatasetValidationError when the dataset has fewer than
\* two features, else with the value error; it returns no result and leaves
\* the object's features as they were.
C16_OneFeatureRejectedByRunLogic ==
    /\ (Constructing /\ ExactlyOne(segment_performance.args[1], segment_performance.args[2])
          /\ isinstance_int(segment_performance.args[3])
          /\ segment_performance.args[3].value >= 0)
       => (last.out = "ok" /\ segment_performance.constructed
            /\ segment_performance.accessed = <<>>)
    /\ (which = "sp" /\ last.op = "run_logic"
          /\ ExactlyOne(segment_performance.args[1], segment_performance.args[2]))
       => /\ ret = None
          /\ last.out = (IF Len(context[last.kind].features) < 2
                         THEN "DatasetValidationError" ELSE "DeepchecksValueError")
          /\ segment_performance.accessed =
                << last.kind, "model", "features_importance", "scorer", "features" >>
          /\ segment_performance.feature_1 = segment_performance.args[1]
          /\ segment_performance.feature_2 = segment_performance.args[2]

\* a check given only feature_1, rejected by run_logic on the train dataset
C16_Witness ==
    /\ which = "sp" /\ last.op = "run_logic" /\ last.kind = "train"
    /\ segment_performance.feature_1 = "a"
    /\ segment_performance.feature_2 = NoFeature
    /\ last.out = "DeepchecksValueError"

Supported == {CLASSIFICATION, OBJECT_DETECTION}
BuffersUntouched ==
    UNCHANGED << inited, prediction_properties, train_prediction_properties,
                 test_prediction_properties, train_properties, test_properties,
                 train_scores, test_scores, log >>

\* C17 (as stated): initialize_run on a context whose dataset is of an
\* unsupported task type raises and creates no buffer, in both checks and
\* whether or not the caller supplied its own properties.
C17_UnsupportedTaskRejectedAlways ==
    [][ \A ctx \in Contexts :
          ((PD_initialize_run(ctx) \/ EA_initialize_run(ctx))
              /\ ctx.train_task \notin Supported)
          => (last'.out # "ok" /\ BuffersUntouched) ]_vars

\* C17 (amended): ModelErrorAnalysis.initialize_run rejects a context of an
\* unsupported task type and creates no buffer; TrainTestPredictionDrift
\* does so only when the caller supplied no properties.  With caller-supplied
\* properties its initialize_run accepts every task type: it takes the
\* caller's properties and creates both buffers.
C17_UnsupportedTaskRejectedWithoutUserProperties ==
    [][ \A ctx \in Contexts :
          /\ (EA_initialize_run(ctx) /\ ctx.train_task \notin Supported)
             => (last'.out = "UnsupportedTaskType" /\ BuffersUntouched)
          /\ (PD_initialize_run(ctx) /\ ctx.train_task \notin Supported
                /\ user_prediction_properties = <<>>)
             => (last'.out = "NotImplementedError" /\ BuffersUntouched)
          /\ (PD_initialize_run(ctx) /\ ctx.train_task \notin Supported
                /\ user_prediction_properties # <<>>)
             => /\ last'.out = "ok"
                /\ inited'
                /\ prediction_properties' = user_prediction_properties
                /\ train_prediction_properties' = EmptyDict
                /\ test_prediction_properties' = EmptyDict ]_vars

\* a drift check with caller-supplied properties that has accumulated
\* batches and computed a result on a dataset of an unsupported task type
C17_Witness ==
    /\ which = "pd" /\ inited
    /\ context.train_task \notin Supported
    /\ user_prediction_properties # <<>>
    /\ log # <<>>
    /\ last = Call("compute", "none", "ok")

\* the threshold the condition was given for the method of a property
OwnThreshold(p) ==
    IF ret.value[p].method = PSI THEN ret.max_allowed_psi_score
    ELSE ret.max_allowed_earth_movers_score

\* C18: the drift-score condition returns FAIL when some property has a
\* drift score above the threshold given for its own method (PSI or Earth
\* Mover's Distance) and PASS otherwise, so a score equal to its threshold
\* passes; the columns it names are those above their own threshold.
C18_ConditionByOwnThreshold ==
    (which = "pd" /\ last.op = "condition")
    => /\ ret.condition.category =
            (IF \E p \in DOMAIN ret.value : ret.value[p].score > OwnThreshold(p)
             THEN "FAIL" ELSE "PASS")
       /\ ret.condition.details[1] \cup ret.condition.details[2] =
            {p \in DOMAIN ret.value : ret.value[p].score > OwnThreshold(p)}

\* a result in which a property's score equals the threshold of its own
\* method and is above the threshold of the other method: the condition does
\* not name the property
C18_Witness ==
    /\ which = "pd" /\ last.op = "condition"
    /\ \E p, q \in DOMAIN ret.value :
         /\ ret.value[q].method # ret.value[p].method
         /\ ret.value[q].score = OwnThreshold(q)
         /\ ret.value[q].score > OwnThreshold(p)
         /\ q \notin ret.condition.details[1] \cup ret.condition.details[2]

\* the declared properties scored with PSI (class_id and discrete)
Categorical ==
    {i \in DOMAIN prediction_properties :
        get_column_type(prediction_properties[i].output_type) = "categorical"}
\* both populations of a property as compute leaves them, train first
Combined(i) ==
    Get(train_prediction_properties, prediction_properties[i].name)
        \o Get(test_prediction_properties, prediction_properties[i].name)
FirstSeen(column, v) == CHOOSE i \in DOMAIN column :
                            column[i] = v /\ \A j \in 1..(i - 1) : column[j] # v
\* value v ranks before value w: more frequent, or as frequent and seen first
RanksBefore(column, v, w) ==
    \/ Count(column, v) > Count(column, w)
    \/ Count(column, v) = Count(column, w) /\ FirstSeen(column, v) < FirstSeen(column, w)
IsSingleton(bin) == Cardinality(bin.values) = 1 /\ bin.label # OTHER_LABEL

\* the bins of a column under a cap of k bins are as the binning rule says
BinnedAsRuled(bins, column, k) ==
    LET distinct == {column[i] : i \in DOMAIN column}
        singles == {i \in DOMAIN bins : bins[i].label # OTHER_LABEL}
        Value(i) == CHOOSE v \in bins[i].values : TRUE
    IN /\ \A v \in distinct : Cardinality({i \in DOMAIN bins : v \in bins[i].values}) = 1
       /\ \A i \in DOMAIN bins : bins[i].values \subseteq distinct
       /\ \A i \in singles : IsSingleton(bins[i])
       /\ \A i, j \in singles : i < j => RanksBefore(column, Value(i), Value(j))
       /\ IF Cardinality(distinct) <= k
          THEN singles = DOMAIN bins /\ Len(bins) = Cardinality(distinct)
          ELSE /\ Len(bins) = k
               /\ singles = 1..(k - 1)
               /\ bins[k].label = OTHER_LABEL
               /\ Cardinality(bins[k].values) = Cardinality(distinct) - (k - 1)
               /\ \A i \in singles : \A w \in bins[k].values :
                     RanksBefore(column, Value(i), w)

\* the example of the claim with all frequencies divided by 5: a, b, c, d
\* (here 1, 2, 3, 4) occurring 10, 6, 3 and 1 times, d seen first
ExampleColumn ==
    << 4 >> \o [i \in 1..10 |-> 1] \o [i \in 1..6 |-> 2] \o [i \in 1..3 |-> 3]

\* C19: in every returned drift result, the bins of each categorical
\* property are those of categorical binning with cap
\* max_num_categories_for_drift: values ranked by frequency (ties by first
\* seen), the top k-1 as singleton bins and one "Other" bin for the rest, and
\* no "Other" bin when there are at most k distinct values; k = 3 over
\* {a:50, b:30, c:15, d:5} gives {a}, {b}, Other = {c, d}.
C19_CategoricalBinning ==
    (which = "pd" /\ last = Call("compute", "none", "ok"))
    => /\ \A i \in Categorical :
            BinnedAsRuled(ret.displays_dict[prediction_properties[i].name].bins,
                          Combined(i), config.max_num_categories_for_drift)
       /\ categorical_bins(ExampleColumn, 3) =
            << Bin("1", {1}), Bin("2", {2}), Bin(OTHER_LABEL, {3, 4}) >>

\* a property with three distinct values binned under a cap of two bins
C19_Witness ==
    /\ which = "pd" /\ last = Call("compute", "none", "ok")
    /\ config.max_num_categories_for_drift = 2
    /\ \E i \in Categorical :
         /\ Cardinality({Combined(i)[j] : j \in DOMAIN Combined(i)}) = 3
         /\ Len(ret.displays_dict[prediction_properties[i].name].bins) = 2
         /\ ret.displays_dict[prediction_properties[i].name].bins[2].label = OTHER_LABEL

\* what the scorer gives for declared property i on the accumulated buffers
\* when the categories to show are selected by s
DriftShownBy(i, s) ==
    calc_drift_and_plot(
        Get(train_prediction_properties, prediction_properties[i].name),
        Get(test_prediction_properties, prediction_properties[i].name),
        get_column_type(prediction_properties[i].output_type),
        config.max_num_categories_for_drift,
        config.max_num_categories_for_display, s)

\* C20: the drift score and the method compute returns for a property are
\* those the accumulated buffers give under each value of show_categories_by:
\* the selection policy changes the rendered artifact only.
C20_ScoreIndependentOfSelection ==
    (which = "pd" /\ last = Call("compute", "none", "ok"))
    => \A i \in DOMAIN prediction_properties : \A s \in ShowCategoriesBy :
          /\ DriftShownBy(i, s).error = "none"
          /\ DriftShownBy(i, s).score = ret.value[prediction_properties[i].name].score
          /\ DriftShownBy(i, s).method = ret.value[prediction_properties[i].name].method
          /\ DriftShownBy(i, s).display.bins =
                ret.displays_dict[prediction_properties[i].name].bins

\* a returned result with a property whose chart shows other categories under
\* another selection policy than the one the check was constructed with
C20_Witness ==
    /\ which = "pd" /\ last = Call("compute", "none", "ok")
    /\ \E i \in Categorical : \E s \in ShowCategoriesBy :
         /\ s # config.show_categories_by
         /\ DriftShownBy(i, s).display.shown #
               ret.displays_dict[prediction_properties[i].name].shown
         /\ ret.value[prediction_properties[i].name].score > 0

\* ---------------------------------------------------------------- C21
\* both populations of the named property hold at least one value
BothPopulated(name) ==
    /\ Get(train_prediction_properties, name) # <<>>
    /\ Get(test_prediction_properties, name) # <<>>

\* C21: every drift score in a returned drift result is greater than or
\* equal to 0, for every pair of non-empty train and test populations.
C21_ScoresNonNegative ==
    (AfterCompute /\ ret.type = "CheckResult") =>
       \A name \in DOMAIN ret.value :
           BothPopulated(name) => ret.value[name].score >= 0

\* a result holding a PSI and an earth mover's distance, both above 0, of
\* populated buffers of different sizes
C21_Witness ==
    /\ AfterCompute
    /\ ret.type = "CheckResult"
    /\ \E a, b \in DOMAIN ret.value :
          /\ BothPopulated(a) /\ BothPopulated(b)
          /\ ret.value[a].method = PSI /\ ret.value[a].score > 0
          /\ ret.value[b].method = EMD /\ ret.value[b].score > 0
          /\ Len(Get(test_prediction_properties, a))
                < Len(Get(train_prediction_properties, a))

\* ---------------------------------------------------------------- C23
\* the frame the last run of MixedDataTypes examined
MD_examined ==
    select_from_dataframe(IF last.kind = "train" THEN context.train ELSE context.test,
                          config.columns, config.ignore_columns)
\* the values of column c that are not missing
NonMissing(c) ==
    LET col == MD_examined.data[c]
    IN { i \in DOMAIN col : col[i].type # "nan" }
Parsable(c) == { i \in NonMissing(c) : is_float(MD_examined.data[c][i]) }
\* a string column holding a value that parses as a number and one that
\* does not
Mixed(c) ==
    /\ \E i \in NonMissing(c) : MD_examined.data[c][i].type = "str"
    /\ Parsable(c) # {}
    /\ Parsable(c) # NonMissing(c)
Zero == Ratio(0, 1)
One == Ratio(1, 1)
AfterMixedRun == which = "md" /\ last.op = "run_logic"

\* C23: the MixedDataTypes result contains a column (of the frame the check
\* examines) if and only if, after missing values are dropped, it is a string
\* column with at least one value parsable as a number and at least one that
\* is not; for every such column 'numbers' is the parsable count divided by
\* the non-missing count, 'strings' is 1 minus 'numbers', and both lie
\* strictly between 0 and 1.
C23_MixedColumnsReported ==
    AfterMixedRun =>
       /\ ret.type = "CheckResult"
       /\ \A c \in DOMAIN ret.value : \E i \in DOMAIN MD_examined.columns :
             MD_examined.columns[i] = c
       /\ \A i \in DOMAIN MD_examined.columns :
             LET c == MD_examined.columns[i]
             IN /\ (c \in DOMAIN ret.value) <=> Mixed(c)
                /\ Mixed(c) =>
                     LET mix == ret.value[c]
                     IN /\ RatioEq(mix.numbers, Ratio(Cardinality(Parsable(c)),
                                                      Cardinality(NonMissing(c))))
                        /\ RatioEq(mix.strings, OneMinus(mix.numbers))
                        /\ Less(Zero, mix.numbers) /\ Less(mix.numbers, One)
                        /\ Less(Zero, mix.strings) /\ Less(mix.strings, One)

\* a run that reports a column with a missing value (2 of its 3 other values
\* parse) and leaves out a column of strings, one of numeric strings and one
\* of numbers
C23_Witness ==
    /\ AfterMixedRun
    /\ last.kind = "train"
    /\ DOMAIN ret.value = {"m", "t"}
    /\ RatioEq(ret.value["m"].numbers, Ratio(2, 3))
    /\ RatioEq(ret.value["m"].strings, Ratio(1, 3))
    /\ Len(MD_examined.columns) = 5

\* ---------------------------------------------------------------- C24
\* the ratio of the rarer data type of a reported column
Rarer(result, col) == RatioMin(result[col].strings, result[col].numbers)
\* the ratio is more than the upper bound of the range or less than its
\* lower bound
OutsideRange(r, ratio_range) == Less(ratio_range[2], r) \/ Less(r, ratio_range[1])

\* C24: the rare-type-ratio condition passes exactly when, for every reported
\* column, the ratio of the rarer data type min(strings, numbers) is either
\* more than the upper bound of ratio_range or less than its lower bound, and
\* returns WARN naming the columns otherwise.
C24_PassOutsideRange ==
    (which = "md" /\ last.op = "condition") =>
       LET inside == { c \in DOMAIN ret.value :
                         ~OutsideRange(Rarer(ret.value, c), ret.ratio_range) }
       IN IF inside = {}
          THEN ret.condition.category = "PASS"
          ELSE /\ ret.condition.category = "WARN"
               /\ { ret.condition.details[i] : i \in DOMAIN ret.condition.details }
                    = inside

\* ---------------------------------------------------------------- C22
AfterDisplay == which = "ds" /\ last.op = "display_suite_result"
IsFailure(r) == r.type = "CheckFailure"
IsResult(r) == r.type = "CheckResult"
\* name and '<ExceptionClass>: <message>' of a failed check
FailureRecord(r) ==
    [Check |-> r.header,
     Reason |-> r.exception.class \o ": " \o r.exception.message]
Occurrences(s, x) == Cardinality({ i \in DOMAIN s : s[i] = x })

\* C22: every failed check passed to the suite report yields exactly one
\* failure row made of the check name and a reason of the form
\* '<ExceptionClass>: <message>', and no failed check is rendered any other
\* way; an element that is neither a check result nor a check failure makes
\* the report raise a value error.
C22_FailuresAreRows ==
    AfterDisplay =>
       IF \E i \in DOMAIN suite_results :
             ~IsFailure(suite_results[i]) /\ ~IsResult(suite_results[i])
       THEN last.out = "DeepchecksValueError" /\ displayed = <<>>
       ELSE /\ last.out = "ok"
            /\ suite_results # <<>> =>
                 LET report == displayed[1]
                     failures == { i \in DOMAIN suite_results :
                                      IsFailure(suite_results[i]) }
                 IN /\ \A i \in failures :
                          Occurrences(report.others, FailureRecord(suite_results[i]))
                            = Cardinality({ j \in failures :
                                  FailureRecord(suite_results[j])
                                    = FailureRecord(suite_results[i]) })
                    /\ Cardinality({ k \in DOMAIN report.others :
                                        report.others[k].Reason # "Nothing found" })
                         = Cardinality(failures)
                    /\ \A k \in DOMAIN report.conditions_summary :
                          ~IsFailure(report.conditions_summary[k])
                    /\ \A k \in DOMAIN report.additional_outputs :
                          ~IsFailure(report.additional_outputs[k])
                    /\ report.checks_wo_tab = <<>>

\* a report of two failed checks and a result that is displayed
C22_Witness ==
    /\ AfterDisplay
    /\ last.out = "ok"
    /\ Len(suite_results) = 3
    /\ Cardinality({ i \in DOMAIN suite_results : IsFailure(suite_results[i]) }) = 2
    /\ Len(displayed[1].others) = 2
    /\ displayed[1].others[1].Reason = "DeepchecksProcessError: weak model"
    /\ Len(displayed[1].additional_outputs) = 1

\* ---------------------------------------------------------------- C29
\* the result is in the conditions summary, among the additional outputs, or
\* in the table of the checks that were not displayed
ShownIn(report, r) ==
    \/ \E k \in DOMAIN report.conditions_summary : report.conditions_summary[k] = r
    \/ \E k \in DOMAIN report.additional_outputs : report.additional_outputs[k] = r
    \/ \E k \in DOMAIN report.others :
          report.others[k] = [Check |-> r.header, Reason |-> "Nothing found"]

\* C29: every check result passed to display_suite_result is shown in at
\* least one section of the report: the conditions summary, the additional
\* outputs, or the table of checks that were not displayed; in particular a
\* result that has a display but no conditions is shown.
C29_EveryResultShown ==
    (AfterDisplay /\ last.out = "ok" /\ suite_results # <<>>) =>
       \A i \in DOMAIN suite_results :
           IsResult(suite_results[i]) => ShownIn(displayed[1], suite_results[i])

\* ---------------------------------------------------------------- C25
AfterSegmentRun ==
    which = "sp" /\ last.op = "run_logic" /\ last.out = "ok"
\* the dataset of the last run and the segments of its two features
SP_dataset == IF last.kind = "train" THEN context.train ELSE context.test
Segments(feature) ==
    partition_column(SP_dataset, feature, segment_performance.max_segments.value)
\* the rows of the dataset that pass segment i of feature_1 and segment j of
\* feature_2
PassingBoth(i, j) ==
    { r \in DOMAIN SP_dataset.data :
         /\ SP_dataset.data[r][ret.feature_1] \in Segments(ret.feature_1)[i].values
         /\ SP_dataset.data[r][ret.feature_2] \in Segments(ret.feature_2)[j].values }

\* C25: in SegmentPerformance, for every pair (i, j) of a feature_1 segment
\* and a feature_2 segment, counts[i][j] is the number of dataset rows passing
\* both filters, the scorer is invoked exactly when that number is greater
\* than 0, and a cell with count 0 gets score None and an empty text label.
C25_CellCountsAndScores ==
    AfterSegmentRun =>
       /\ DOMAIN ret.counts
            = (DOMAIN Segments(ret.feature_1)) \X (DOMAIN Segments(ret.feature_2))
       /\ \A c \in DOMAIN ret.counts :
             /\ ret.counts[c] = Cardinality(PassingBoth(c[1], c[2]))
             /\ (c \in ret.scored) <=> (Cardinality(PassingBoth(c[1], c[2])) > 0)
             /\ ret.counts[c] = 0 => (ret.scores[c] = None /\ ret.scores_text[c] = "")

\* a run whose grid has an empty cell next to a scored one, both in segments
\* that hold rows
C25_Witness ==
    /\ AfterSegmentRun
    /\ \E c, d \in DOMAIN ret.counts :
          /\ ret.counts[c] = 0 /\ ret.scores[c] = None
          /\ ret.counts[d] > 0 /\ d \in ret.scored /\ d[1] = c[1]
          /\ \E e \in DOMAIN ret.counts : e[2] = c[2] /\ ret.counts[e] > 0

\* ---------------------------------------------------------------- C26
\* the error scores of a kind are as many as the values of every image
\* property of that kind
ScoresMatchProperties(properties, scores) ==
    \A i \in DOMAIN image_properties :
        Len(Get(properties, image_properties[i].name)) = Len(scores)

ClassIds == {0, 1}
OnlyIds(column) == \A i \in DOMAIN column : column[i] \in ClassIds
ClassProperties ==
    { i \in DOMAIN prediction_properties :
         prediction_properties[i].output_type = "class_id" }

\* C27: each accumulated class id is translated to a class name exactly once:
\* the buffers hold only numeric ids throughout accumulation, and compute
\* leaves the accumulated buffers unchanged, so calling compute twice on the
\* same accumulated state returns the same drift values.
C27_ComputeLeavesIds ==
    (which = "pd" /\ inited) =>
       \A i \in ClassProperties :
           LET name == prediction_properties[i].name
           IN /\ OnlyIds(Get(train_prediction_properties, name))
              /\ OnlyIds(Get(test_prediction_properties, name))
              /\ Get(train_prediction_properties, name) = Accumulated(name, TRAIN, log)
              /\ Get(test_prediction_properties, name) = Accumulated(name, TEST, log)

\* ---------------------------------------------------------------- C28
\* C28: running SegmentPerformance leaves the check's configured feature_1
\* and feature_2 and the context's feature-importance ordering unchanged: a
\* check constructed without features selects its two features afresh on
\* every run from that run's own dataset.
C28_RunLeavesConfiguration ==
    [][ (which = "sp" /\ last'.op = "run_logic") =>
           /\ segment_performance'.feature_1 = segment_performance.feature_1
           /\ segment_performance'.feature_2 = segment_performance.feature_2
           /\ context'.features_importance = context.features_importance ]_vars

\* ---------------------------------------------------------------- C30
\* C30: an update call whose dataset kind is neither TRAIN nor TEST raises an
\* error and leaves the train and test buffers (and score lists) exactly as
\* they were before the call, in both checks.
C30_UnknownKindRejected ==
    [][ (which \in {"pd", "ea"} /\ last'.op = "update"
          /\ last'.kind \notin {TRAIN, TEST}) =>
           /\ last'.out = (IF which = "pd" THEN "DeepchecksNotSupportedError"
                           ELSE "RuntimeError")
           /\ train_prediction_properties' = train_prediction_properties
           /\ test_prediction_properties' = test_prediction_properties
           /\ train_properties' = train_properties
           /\ test_properties' = test_properties
           /\ train_scores' = train_scores
           /\ test_scores' = test_scores ]_vars

\* the drift check has rejected such an update on buffers that hold values
C30_Witness ==
    /\ which = "pd" /\ inited
    /\ last = Call("update", OTHER_KIND, "DeepchecksNotSupportedError")
    /\ \E k \in DOMAIN train_prediction_properties :
          train_prediction_properties[k] # <<>>
    /\ \E k \in DOMAIN test_prediction_properties :
          test_prediction_properties[k] # <<>>

====
